---------------------------- MODULE Spec2Model ----------------------------
(***************************************************************************)
(* Thread aggregation and activity classification of innovcentric-hub.     *)
(*                                                                         *)
(* The repository holds several revisions of the page function and of the  *)
(* classifier, and each is modelled:                                       *)
(*   "inbox"   src/backend/src/workspace.js:27   getUserActivity           *)
(*             src/backend/src/workspace.js:204  analyzeThread             *)
(*   "sent"    src/unnamed/part_002:4            getUserSentActivity       *)
(*             src/unnamed/part_002:163          analyzeSentThread         *)
(*   "allmail" src/unnamed/part_001:41           getUserActivity           *)
(*             src/unnamed/part_001:137          analyzeThread             *)
(* The enrichment collaborator is src/unnamed/part_002:244                 *)
(* (extractRTRDetails).                                                    *)
(*                                                                         *)
(* A JavaScript string is a sequence of one-character strings, so that     *)
(* toLowerCase, includes, trim and the regular expressions of the source   *)
(* are computed and not assumed.                                           *)
(***************************************************************************)
EXTENDS Integers, Sequences, FiniteSets, TLC

(***************************************************************************)
(* Strings                                                                 *)
(***************************************************************************)
UpperChars == <<"A","B","C","D","E","F","G","H","I","J","K","L","M",
                "N","O","P","Q","R","S","T","U","V","W","X","Y","Z">>

LowerChars == <<"a","b","c","d","e","f","g","h","i","j","k","l","m",
                "n","o","p","q","r","s","t","u","v","w","x","y","z">>

LowerChar(c) ==
    IF \E i \in 1..Len(UpperChars) : UpperChars[i] = c
    THEN LowerChars[CHOOSE i \in 1..Len(UpperChars) : UpperChars[i] = c]
    ELSE c

\* String.prototype.toLowerCase
toLowerCase(s) == [i \in 1..Len(s) |-> LowerChar(s[i])]

\* String.prototype.includes
includes(s, k) ==
    \E i \in 0..(Len(s) - Len(k)) : SubSeq(s, i + 1, i + Len(k)) = k

\* String.prototype.startsWith
startsWith(s, k) == Len(s) >= Len(k) /\ SubSeq(s, 1, Len(k)) = k

\* \s of a regular expression, and the characters trim() removes
IsSpace(c) == c \in {" ", "\t", "\n"}

RECURSIVE trimStart(_)
trimStart(s) ==
    IF s # <<>> /\ IsSpace(Head(s)) THEN trimStart(Tail(s)) ELSE s

RECURSIVE trimEnd(_)
trimEnd(s) ==
    IF s # <<>> /\ IsSpace(s[Len(s)]) THEN trimEnd(SubSeq(s, 1, Len(s) - 1)) ELSE s

\* String.prototype.trim
trim(s) == trimEnd(trimStart(s))

Digit(i) == <<"0","1","2","3","4","5","6","7","8","9">>[i + 1]

\* Array.prototype.includes on a set of label ids
hasLabel(m, l) == l \in m.labelIds

(***************************************************************************)
(* Sorting.  Array.prototype.sort is stable (ECMAScript 2019): an element  *)
(* is placed after every element that does not compare greater than it.    *)
(***************************************************************************)
\* sorted with x placed after the last element whose key is <= key(x)
InsertAsc(sorted, x) ==
    LET n == Cardinality({i \in 1..Len(sorted) : sorted[i].internalDate <= x.internalDate})
    IN  SubSeq(sorted, 1, n) \o <<x>> \o SubSeq(sorted, n + 1, Len(sorted))

\* mutant: the messages are left in the order the provider listed them
sortSkipped(msgs) == msgs

\* x placed before the elements whose key equals key(x)
InsertAscUnstable(sorted, x) ==
    LET n == Cardinality({i \in 1..Len(sorted) : sorted[i].internalDate < x.internalDate})
    IN  SubSeq(sorted, 1, n) \o <<x>> \o SubSeq(sorted, n + 1, Len(sorted))

RECURSIVE sortUnstable(_)
\* mutant: a sort that reverses the messages of equal internalDate
sortUnstable(msgs) ==
    IF msgs = <<>> THEN <<>>
    ELSE InsertAscUnstable(sortUnstable(SubSeq(msgs, 1, Len(msgs) - 1)), msgs[Len(msgs)])

RECURSIVE sortByInternalDate(_)
\* messages.sort((a, b) => parseInt(a.internalDate) - parseInt(b.internalDate))
sortByInternalDate(msgs) ==
    IF msgs = <<>> THEN <<>>
    ELSE InsertAsc(sortByInternalDate(SubSeq(msgs, 1, Len(msgs) - 1)), msgs[Len(msgs)])


(***************************************************************************)
(* Messages.  A message of a thread (the provider's users.threads.get) is  *)
(*   [id, internalDate, labelIds, snippet, historyId, payload]             *)
(* with payload = [present, headers, parts], headers = [present, list] a   *)
(* list of [name, value], and parts = [present, list] a list of            *)
(* [filename].  present = FALSE is JavaScript's undefined.                 *)
(***************************************************************************)
NoHeaders == [present |-> FALSE, list |-> <<>>]

Headers(l) == [present |-> TRUE, list |-> l]

NoParts == [present |-> FALSE, list |-> <<>>]

Parts(l) == [present |-> TRUE, list |-> l]

NoPayload == [present |-> FALSE, headers |-> NoHeaders, parts |-> NoParts]

Payload(h, p) == [present |-> TRUE, headers |-> h, parts |-> p]

\* primaryMsg.payload?.headers
payloadHeaders(m) == IF m.payload.present THEN m.payload.headers ELSE NoHeaders

\* headers?.find(h => h.name === name)?.value || dflt
\* (an absent header and an empty value both give dflt)
headerValue(h, name, dflt) ==
    LET idx == {i \in 1..Len(h.list) : h.list[i].name = name}
        first == CHOOSE i \in idx : \A j \in idx : i <= j
    IN  IF ~h.present \/ idx = {} THEN dflt
        ELSE IF h.list[first].value = <<>> THEN dflt
        ELSE h.list[first].value

Unknown == <<"U","n","k","n","o","w","n">>

NoSubject == <<"(","N","o"," ","S","u","b","j","e","c","t",")">>

\* s.replace(/"/g, '')
RECURSIVE removeQuotes(_)
removeQuotes(s) ==
    IF s = <<>> THEN <<>>
    ELSE IF Head(s) = "\"" THEN removeQuotes(Tail(s))
    ELSE <<Head(s)>> \o removeQuotes(Tail(s))

\* the positions i of "<" from which /<([^>]+)>/ matches: the first ">"
\* after i exists and is not the next character
bracketStarts(s) ==
    {i \in 1..Len(s) :
        /\ s[i] = "<"
        /\ \E j \in (i + 2)..Len(s) :
              s[j] = ">" /\ \A k \in (i + 1)..(j - 1) : s[k] # ">"}

\* fromRaw.match(/<([^>]+)>/)?.[1] || fromRaw.replace(/"/g, '').trim()
parseEmail(raw) ==
    IF bracketStarts(raw) = {} THEN trim(removeQuotes(raw))
    ELSE LET i == CHOOSE a \in bracketStarts(raw) : \A b \in bracketStarts(raw) : a <= b
             j == CHOOSE c \in (i + 2)..Len(raw) :
                      raw[c] = ">" /\ \A k \in (i + 1)..(c - 1) : raw[k] # ">"
         IN  SubSeq(raw, i + 1, j - 1)

\* fromRaw.split('<')[0].replace(/"/g, '').trim() || fromEmail
parseName(raw) ==
    LET lt == {i \in 1..Len(raw) : raw[i] = "<"}
        cut == IF lt = {} THEN Len(raw)
               ELSE (CHOOSE a \in lt : \A b \in lt : a <= b) - 1
        name == trim(removeQuotes(SubSeq(raw, 1, cut)))
    IN  IF name = <<>> THEN parseEmail(raw) ELSE name


(***************************************************************************)
(* analyzeThread of the inbox-only revision (workspace.js:204).  The call  *)
(* has one suspension point, the recovery fetch of the primary message's   *)
(* headers, so it is split into the part before it and the part after it.  *)
(***************************************************************************)
Null == [kind |-> "null"]

\* if (!threadData || !threadData.messages) return null;
\* if (messages.length === 0) return null;
returnsNull(td) == ~td.hasMessages \/ td.messages = <<>>

\* const latestMsg = messages[messages.length - 1];
latestOf(msgs) == msgs[Len(msgs)]

\* const primaryMsg = messages[0];
primaryOf(msgs) == msgs[1]

\* if (!fromHeaders && primaryMsg.id !== latestMsg.id)
needsRecovery(msgs) ==
    /\ ~payloadHeaders(primaryOf(msgs)).present
    /\ primaryOf(msgs).id # latestOf(msgs).id

\* mutant: every thread of more than one message counts as replied
repliedWhenLong(msgs) == Len(msgs) > 1

\* Policy B: messages.length > 1 && primaryIsInbound && latestIsOutbound
repliedStrict(msgs) ==
    /\ Len(msgs) > 1
    /\ ~hasLabel(primaryOf(msgs), "SENT")
    /\ hasLabel(latestOf(msgs), "SENT")

\* The record analyzeThread returns: msgs is threadData.messages after the
\* in-place sort, fetched the value of fromHeaders after the recovery step
\* (NoHeaders when the fetch was not made, failed or brought no headers).
analyzeThreadResult(id, msgs, fetched) ==
    LET latestMsg == latestOf(msgs)
        primaryMsg == primaryOf(msgs)
        own == payloadHeaders(primaryMsg)
        afterFetch == IF own.present THEN own ELSE fetched
        fromHeaders == IF afterFetch.present THEN afterFetch
                       ELSE payloadHeaders(latestMsg)
        fromRaw == headerValue(fromHeaders, "From", Unknown)
    IN  [kind |-> "thread",
         id |-> id,
         snippet |-> latestMsg.snippet,
         historyId |-> latestMsg.historyId,
         valid |-> TRUE,
         sort_epoch |-> latestMsg.internalDate,
         timestamp |-> latestMsg.internalDate,
         from |-> parseName(fromRaw),
         subject |-> headerValue(fromHeaders, "Subject", NoSubject),
         analysis |-> [is_inbox |-> \E i \in 1..Len(msgs) : ~hasLabel(msgs[i], "SENT"),
                       is_replied |-> repliedStrict(msgs)]]


(***************************************************************************)
(* analyzeSentThread (part_002:163).  Its suspension point is the fetch of *)
(* the latest message's headers.                                           *)
(***************************************************************************)
UnknownRecipient ==
    <<"U","n","k","n","o","w","n"," ","R","e","c","i","p","i","e","n","t">>

\* part_002:179-182: let headers = latestMsg.payload?.headers; if (!headers)
needsRecoverySent(msgs) == ~payloadHeaders(latestOf(msgs)).present

\* part_002:189-213: the record analyzeSentThread returns; fetched is what the
\* fetch of the latest message brought (NoHeaders when it failed)
analyzeSentThreadResult(id, msgs, fetched) ==
    LET latestMsg == latestOf(msgs)
        own == payloadHeaders(latestMsg)
        headers == IF own.present THEN own ELSE fetched
        toRaw == headerValue(headers, "To", UnknownRecipient)
    IN  [kind |-> "thread",
         id |-> id,
         snippet |-> latestMsg.snippet,
         historyId |-> latestMsg.historyId,
         valid |-> TRUE,
         sort_epoch |-> latestMsg.internalDate,
         timestamp |-> latestMsg.internalDate,
         from |-> parseName(toRaw),
         subject |-> headerValue(headers, "Subject", NoSubject),
         analysis |-> [is_inbox |-> TRUE, is_sent |-> TRUE, is_replied |-> FALSE]]


(***************************************************************************)
(* analyzeThread of the all-mail revision (part_001:137).  Its suspension  *)
(* points are the recovery fetch and the enrichment call.                  *)
(***************************************************************************)
\* const keywords = ['resume', 'cv', 'profile', 'candidate', 'submission'];
keywords ==
    << <<"r","e","s","u","m","e">>,
       <<"c","v">>,
       <<"p","r","o","f","i","l","e">>,
       <<"c","a","n","d","i","d","a","t","e">>,
       <<"s","u","b","m","i","s","s","i","o","n">> >>

\* keywords.some(k => name.toLowerCase().includes(k))
isResumeName(name) ==
    \E i \in 1..Len(keywords) : includes(toLowerCase(name), keywords[i])

RECURSIVE filterResumes(_)
\* parts.filter(part => part.filename && part.filename.length > 0)
\*      .map(part => part.filename).filter(<keywords>)
filterResumes(parts) ==
    IF parts = <<>> THEN <<>>
    ELSE LET f == Head(parts).filename
         IN  IF f # <<>> /\ isResumeName(f)
             THEN <<f>> \o filterResumes(Tail(parts))
             ELSE filterResumes(Tail(parts))

\* the validResumes of one message (empty when it has no p.parts)
validResumes(m) ==
    IF m.payload.present /\ m.payload.parts.present
    THEN filterResumes(m.payload.parts.list)
    ELSE <<>>

RECURSIVE resumeFilesOf(_)
\* resumeFiles after the forEach: resumeFiles.push(...validResumes)
resumeFilesOf(msgs) ==
    IF msgs = <<>> THEN <<>>
    ELSE validResumes(Head(msgs)) \o resumeFilesOf(Tail(msgs))

\* mutant: the filenames are emitted as collected, repeats included
keepRepeats(s) == s

RECURSIVE uniqueInOrder(_)
\* [...new Set(resumeFiles)]: first occurrences, in insertion order
uniqueInOrder(s) ==
    IF s = <<>> THEN <<>>
    ELSE LET front == SubSeq(s, 1, Len(s) - 1)
             x == s[Len(s)]
         IN  IF \E i \in 1..Len(front) : front[i] = x
             THEN uniqueInOrder(front)
             ELSE uniqueInOrder(front) \o <<x>>

RtrWord == <<"r","t","r">>

RtrPhrase == <<"r","i","g","h","t"," ","t","o"," ","r","e","p","r","e","s","e","n","t">>

\* the RTR check of one message: its own Subject, lower-cased, or its labels
isRtrMessage(m, rtrLabelIds) ==
    LET sub == toLowerCase(headerValue(payloadHeaders(m), "Subject", <<>>))
    IN  \/ includes(sub, RtrWord)
        \/ includes(sub, RtrPhrase)
        \/ m.labelIds \cap rtrLabelIds # {}

\* mutant: only the first message of the thread is looked at
isRtrFirstOnly(msgs, rtrLabelIds) == isRtrMessage(msgs[1], rtrLabelIds)

\* isRtr after the forEach over every message of the thread
isRtrThread(msgs, rtrLabelIds) ==
    \E i \in 1..Len(msgs) : isRtrMessage(msgs[i], rtrLabelIds)

\* the alternatives of /^(Fwd|Re|Aw|Fw):\s*/i, lower-cased, with the colon
replyPrefixes ==
    << <<"f","w","d",":">>, <<"r","e",":">>, <<"a","w",":">>, <<"f","w",":">> >>

\* subjectRaw.replace(/^(Fwd|Re|Aw|Fw):\s*/i, '').trim()
cleanSubject(subjectRaw) ==
    LET hit == {i \in 1..Len(replyPrefixes) :
                   startsWith(toLowerCase(subjectRaw), replyPrefixes[i])}
        first == CHOOSE i \in hit : \A j \in hit : i <= j
    IN  IF hit = {} THEN trim(subjectRaw)
        ELSE trim(trimStart(SubSeq(subjectRaw, Len(replyPrefixes[first]) + 1,
                                   Len(subjectRaw))))

IsDelimiter(c) == c \in {"|", "-", ":"}

\* clean.match(/^([^|\-:]+)/)?.[1], the empty string when there is no match
roleMatch(clean) ==
    LET stops == {i \in 1..Len(clean) : IsDelimiter(clean[i])}
        n == IF stops = {} THEN Len(clean)
             ELSE (CHOOSE a \in stops : \A b \in stops : a <= b) - 1
    IN  SubSeq(clean, 1, n)

RtrLabel == <<"R","T","R">>

\* if (match && match[1] && match[1].length < 50)
RoleMaxLen == 50

\* mutant: the role is matched on the raw subject, reply prefix included
roleDisplayOfRaw(subjectRaw, isRtr) ==
    IF isRtr THEN RtrLabel
    ELSE LET m == roleMatch(trim(subjectRaw))
         IN  IF m # <<>> /\ Len(m) < RoleMaxLen THEN trim(m) ELSE cleanSubject(subjectRaw)

\* ROLE EXTRACTION
roleDisplay(subjectRaw, isRtr) ==
    IF isRtr THEN RtrLabel
    ELSE LET clean == cleanSubject(subjectRaw)
             m == roleMatch(clean)
         IN  IF m # <<>> /\ Len(m) < RoleMaxLen THEN trim(m) ELSE clean

\* messages.find(m => !m.labelIds.includes('SENT')) || messages[0]
primaryOfAllMail(msgs) ==
    LET inbound == {i \in 1..Len(msgs) : ~hasLabel(msgs[i], "SENT")}
    IN  IF inbound = {} THEN msgs[1]
        ELSE msgs[CHOOSE i \in inbound : \A j \in inbound : i <= j]

\* let headers = payload.headers || [];   (payload = primaryMsg.payload || {})
ownHeaderList(m) == payloadHeaders(m).list

\* if (headers.length === 0)
needsRecoveryAllMail(msgs) == ownHeaderList(primaryOfAllMail(msgs)) = <<>>

\* Policy A: hasSentMsg && hasReceivedMsg
repliedConversation(msgs) ==
    /\ \E i \in 1..Len(msgs) : hasLabel(msgs[i], "SENT")
    /\ \E i \in 1..Len(msgs) : ~hasLabel(msgs[i], "SENT")

\* result.ai_data: the empty sequence when the field is absent, else <<value>>
NoAi == <<>>

\* The record built before the enrichment step: hlist is headers after the
\* recovery step (the fetched list, or empty when the fetch failed).
analyzeThreadAllMailResult(id, msgs, rtrLabelIds, hlist) ==
    LET primaryMsg == primaryOfAllMail(msgs)
        headers == Headers(hlist)
        subjectRaw == headerValue(headers, "Subject", NoSubject)
        fromRaw == headerValue(headers, "From", Unknown)
        isRtr == isRtrThread(msgs, rtrLabelIds)
        resumeFiles == resumeFilesOf(msgs)
    IN  [kind |-> "thread",
         id |-> id,
         timestamp |-> [iso |-> primaryMsg.internalDate],
         subject |-> roleDisplay(subjectRaw, isRtr),
         original_subject |-> subjectRaw,
         from |-> parseEmail(fromRaw),
         summary |-> primaryMsg.snippet,
         updated_at |-> [iso |-> primaryMsg.internalDate],
         sort_epoch |-> primaryMsg.internalDate,
         analysis |-> [has_resume |-> resumeFiles # <<>>,
                       resume_filenames |-> uniqueInOrder(resumeFiles),
                       is_rtr |-> isRtr,
                       is_sent |-> \E i \in 1..Len(msgs) : hasLabel(msgs[i], "SENT"),
                       is_inbox |-> \E i \in 1..Len(msgs) : hasLabel(msgs[i], "INBOX"),
                       is_replied |-> repliedConversation(msgs)],
         ai_data |-> NoAi]

\* messages.slice(-2)
lastTwo(msgs) == SubSeq(msgs, IF Len(msgs) > 2 THEN Len(msgs) - 1 ELSE 1, Len(msgs))

\* getEmailBody(m) reads messageData.payload.body: a TypeError when the
\* message has no payload
getEmailBodyThrows(msgs) ==
    \E i \in 1..Len(lastTwo(msgs)) : ~lastTwo(msgs)[i].payload.present

\* extractRTRDetails resolving with the model's answer
Extracted ==
    [client |-> "Nike", rate |-> "$50/hr", candidate |-> "John",
     position |-> <<"D","e","v">>, location |-> "Remote", vendor |-> "Acme"]

\* extractRTRDetails's catch block: the record it returns on any error of
\* the completion call or of JSON.parse
Placeholder(subject) ==
    [client |-> "Unknown", rate |-> "N/A", candidate |-> "Unknown",
     position |-> subject, location |-> "Unknown", vendor |-> "Unknown"]


(***************************************************************************)
(* Inputs.  A thread is a sequence of at most MaxMsgs messages in the      *)
(* order the provider lists them; message i of the listing has id i.       *)
(***************************************************************************)
MaxMsgs == 3

\* how many times the same thread object is classified
MaxCalls == 2

Repeat(c, n) == [i \in 1..n |-> c]

FromJane == <<"\"","J","\""," ","<","j","@","x",">">>

FromBare == <<"k","@","y">>

SubjFwd ==
    <<"F","w","d",":"," ","S","e","n","i","o","r"," ",
      "E","n","g","i","n","e","e","r"," ","|"," ","R","e","m","o","t","e">>

SubjRe == <<"R","E",":"," ","J","a","v","a"," ","D","e","v"," ","-"," ","N","Y","C">>

SubjRightTo ==
    <<"N","e","w"," ","R","i","g","h","t"," ","T","o"," ",
      "R","e","p","r","e","s","e","n","t"," ","-"," ","J","o","h","n">>

SubjHello == <<"H","e","l","l","o">>

SubjDash == <<"-"," ","f","o","o">>

\* 50 characters before the first delimiter: not shorter than RoleMaxLen
SubjLong == Repeat("x", 50) \o <<"|","y">>

\* 49 characters before the first delimiter
SubjLong49 == Repeat("x", 49) \o <<"|","y">>

JohnResume == <<"J","o","h","n","_","R","e","s","u","m","e",".","p","d","f">>

NonResume == <<"N","o","n","R","e","s","u","m","e",".","d","o","c","x">>

Notes == <<"N","o","t","e","s",".","d","o","c","x">>

File(name) == [filename |-> name]

Hdr(n, v) == [name |-> n, value |-> v]

Content(ts, labels, payload) ==
    [internalDate |-> ts, labelIds |-> labels, payload |-> payload]

\* message contents given to the all-mail analyzeThread
AllMailPool ==
    { Content(1, {"INBOX"}, Payload(Headers(<<Hdr("From", FromJane), Hdr("Subject", SubjFwd)>>), NoParts)),
      Content(2, {"SENT"}, Payload(Headers(<<Hdr("From", FromBare), Hdr("Subject", SubjRe)>>),
                                     Parts(<<File(JohnResume)>>))),
      Content(2, {"INBOX"}, Payload(Headers(<<Hdr("Subject", SubjRightTo)>>), Parts(<<File(<<>>)>>))),
      Content(1, {"INBOX"}, Payload(Headers(<<Hdr("From", FromJane), Hdr("Subject", SubjLong49)>>),
                                      Parts(<<File(JohnResume), File(Notes)>>))),
      Content(3, {"INBOX"}, Payload(Headers(<<Hdr("Subject", SubjDash)>>), Parts(<<File(NonResume)>>))),
      Content(1, {"INBOX"}, Payload(Headers(<<Hdr("From", FromBare), Hdr("Subject", SubjLong)>>),
                                      Parts(<<File(Notes)>>))),
      Content(2, {"Label_7"}, NoPayload),
      Content(1, {"SENT"}, Payload(Headers(<<>>), NoParts)) }

\* message contents given to the inbox-only analyzeThread: two timestamps
\* (so that ties happen), inbound or sent, headers undefined, empty or full;
\* and an archived message, which carries a user label only
InboxPool ==
    { Content(ts, {l}, pl) :
        ts \in {1, 2}, l \in {"INBOX", "SENT"},
        pl \in { NoPayload,
                 Payload(Headers(<<>>), NoParts),
                 Payload(Headers(<<Hdr("From", FromJane), Hdr("Subject", SubjHello)>>), NoParts) } }
    \cup { Content(1, {"Label_7"},
                   Payload(Headers(<<Hdr("From", FromJane), Hdr("Subject", SubjHello)>>), NoParts)) }

\* message i of a listing
Stamp(c, i) ==
    [id |-> i,
     internalDate |-> c.internalDate,
     labelIds |-> c.labelIds,
     snippet |-> i,
     historyId |-> 100 + i,
     payload |-> c.payload]

\* the headers of message i with the message's id appended to every value, so
\* that the message a header was taken from shows in the result
Tagged(pl, i) ==
    [pl EXCEPT !.headers.list =
        [k \in 1..Len(pl.headers.list) |->
            Hdr(pl.headers.list[k].name, pl.headers.list[k].value \o <<Digit(i)>>)]]

Listings(pool) ==
    UNION { { [i \in 1..n |-> Stamp(f[i], i)] : f \in [1..n -> pool] } : n \in 0..MaxMsgs }

TaggedListings(pool) ==
    { [i \in 1..Len(l) |-> [l[i] EXCEPT !.payload = Tagged(l[i].payload, i)]] :
        l \in Listings(pool) }

\* the RawThread objects: messages undefined, or a listing
ThreadObjects(listings) ==
    { [id |-> 1, hasMessages |-> FALSE, messages |-> <<>>] }
    \cup { [id |-> 1, hasMessages |-> TRUE, messages |-> l] : l \in listings }

\* the headers users.messages.get returns for message id in the recovery fetch
RecoveredHeaders(id) ==
    Headers(<<Hdr("From", FromBare), Hdr("Subject", <<"R","e","c",Digit(id)>>)>>)


(***************************************************************************)
(* Dates.  An epoch (internalDate, sort_epoch) counts ticks of local time  *)
(* since 1970-01-01 00:00, TicksPerDay ticks to the day; new Date(epoch)   *)
(* and its local getters give the civil date of the day the tick falls in. *)
(* A date string is the sequence of its characters, "2024-12-28".          *)
(***************************************************************************)
TicksPerDay == 2

\* days since 1970-01-01 of the civil date y-m-d (proleptic Gregorian)
daysFromCivil(y, m, d) ==
    LET yy == IF m <= 2 THEN y - 1 ELSE y
        era == yy \div 400
        yoe == yy - era * 400
        mp == IF m > 2 THEN m - 3 ELSE m + 9
        doy == (153 * mp + 2) \div 5 + d - 1
        doe == yoe * 365 + yoe \div 4 - yoe \div 100 + doy
    IN  era * 146097 + doe - 719468

\* getFullYear(), getMonth() + 1 and getDate() of day z since 1970-01-01
civilFromDays(z) ==
    LET zz == z + 719468
        era == zz \div 146097
        doe == zz - era * 146097
        yoe == (doe - doe \div 1460 + doe \div 36524 - doe \div 146096) \div 365
        doy == doe - (365 * yoe + yoe \div 4 - yoe \div 100)
        mp == (5 * doy + 2) \div 153
        d == doy - (153 * mp + 2) \div 5 + 1
        m == IF mp < 10 THEN mp + 3 ELSE mp - 9
        y == yoe + era * 400 + (IF m <= 2 THEN 1 ELSE 0)
    IN  [y |-> y, m |-> m, d |-> d]

RECURSIVE numStr(_)
\* String(n) of a natural number
numStr(n) == IF n < 10 THEN <<Digit(n)>> ELSE numStr(n \div 10) \o <<Digit(n % 10)>>

\* String(n).padStart(2, '0')
pad2(n) == IF n < 10 THEN <<"0", Digit(n)>> ELSE numStr(n)

\* `${y}-${m}-${d}` of the local date of an epoch (workspace.js:154-159)
emailDateStr(epoch) ==
    LET c == civilFromDays(epoch \div TicksPerDay)
    IN  numStr(c.y) \o <<"-">> \o pad2(c.m) \o <<"-">> \o pad2(c.d)

\* the UTF-16 code unit of a character of a date string
CharCode(c) ==
    CASE c = "-" -> 45
      [] c = "T" -> 84
      [] OTHER -> 48 + (CHOOSE i \in 0..9 : Digit(i) = c)

RECURSIVE toNumber(_)
\* Number(str) of a string of digits
toNumber(str) ==
    IF str = <<>> THEN 0
    ELSE 10 * toNumber(SubSeq(str, 1, Len(str) - 1)) + (CharCode(str[Len(str)]) - 48)

RECURSIVE split(_, _)
\* str.split(sep) for a one-character separator
split(str, sep) ==
    LET at == {n \in 1..Len(str) : str[n] = sep}
    IN  IF at = {} THEN <<str>>
        ELSE LET first == CHOOSE a \in at : \A b \in at : a <= b
             IN  <<SubSeq(str, 1, first - 1)>> \o split(SubSeq(str, first + 1, Len(str)), sep)

\* mutant: the date is returned as it was given
adjustDateNot(dateStr, days) == dateStr

\* workspace.js:35-43: the local date `days` days from dateStr, YYYY-MM-DD
adjustDate(dateStr, days) ==
    LET ymd == split(dateStr, "-")
        date == daysFromCivil(toNumber(ymd[1]), toNumber(ymd[2]), toNumber(ymd[3])) + days
        c == civilFromDays(date)
    IN  numStr(c.y) \o <<"-">> \o pad2(c.m) \o <<"-">> \o pad2(c.d)

\* workspace.js:46: dateStr.replace(/-/g, '/')
formatForGmail(dateStr) ==
    [n \in 1..Len(dateStr) |-> IF dateStr[n] = "-" THEN "/" ELSE dateStr[n]]

\* a missing argument (undefined, null or '')
NoDate == <<>>

InTrash ==
    <<"-","i","n",":","t","r","a","s","h">>

InSpam ==
    <<"-","i","n",":","s","p","a","m">>

InDrafts ==
    <<"-","i","n",":","d","r","a","f","t","s">>

LabelInbox ==
    <<"l","a","b","e","l",":","I","N","B","O","X">>

LabelSent ==
    <<"l","a","b","e","l",":","S","E","N","T">>

AfterKey ==
    <<" ","a","f","t","e","r",":">>

BeforeKey ==
    <<" ","b","e","f","o","r","e",":">>

\* workspace.js:32, part_002:8, part_001:59: the query before the date bounds
baseQuery(rev) ==
    CASE rev = "inbox" -> LabelInbox \o <<" ">> \o InTrash \o <<" ">> \o InSpam
      [] rev = "sent" -> LabelSent \o <<" ">> \o InTrash \o <<" ">> \o InSpam
      [] OTHER -> InTrash \o <<" ">> \o InSpam \o <<" ">> \o InDrafts

\* part_001:65-67: new Date(endDate) is midnight UTC of endDate; a local day
\* later (a day of 24 hours) is midnight UTC of the next day, whose ISO date
\* is taken
nextDay(endDate) == formatForGmail(adjustDate(endDate, 1))

\* workspace.js:48-63 and part_002:23-35 (bounds moved outward by a day),
\* part_001:60-69 (after: the start date itself)
buildQuery(rev, start, end) ==
    baseQuery(rev)
    \o (IF start = NoDate THEN <<>>
        ELSE AfterKey \o (IF rev = "allmail" THEN formatForGmail(start)
                          ELSE formatForGmail(adjustDate(start, -1))))
    \o (IF end = NoDate THEN <<>>
        ELSE BeforeKey \o (IF rev = "allmail" THEN nextDay(end)
                           ELSE formatForGmail(adjustDate(end, 1))))

\* a < b on strings: code units compared from the left, a prefix is smaller
strLess(a, b) ==
    \E i \in 1..Len(b) :
        /\ \A j \in 1..(i - 1) : j <= Len(a) /\ a[j] = b[j]
        /\ \/ i > Len(a)
           \/ i <= Len(a) /\ CharCode(a[i]) < CharCode(b[i])

\* s.split('T')[0]
beforeT(s) ==
    LET ts == {i \in 1..Len(s) : s[i] = "T"}
    IN  IF ts = {} THEN s
        ELSE SubSeq(s, 1, (CHOOSE a \in ts : \A b \in ts : a <= b) - 1)

\* workspace.js:150-170: isValid of a classified thread
isValid(sort_epoch, startDate, endDate) ==
    LET str == emailDateStr(sort_epoch)
        afterStart == startDate = NoDate \/ ~strLess(str, beforeT(startDate))
    IN  /\ afterStart
        /\ endDate = NoDate \/ ~strLess(beforeT(endDate), str)

(***************************************************************************)
(* State                                                                   *)
(***************************************************************************)
VARIABLES
    revision,     \* "inbox" (workspace.js:27), "sent" (part_002:4), "allmail" (part_001:41)
    threadData,   \* the RawThread object handed to analyzeThread
    rtrLabelIds,  \* the label ids of interest handed to analyzeThread
    msgGet,       \* the provider's answer to the recovery fetch, once known
    tpc,          \* where the running call of analyzeThread is suspended
    pending,      \* the record the running call has built so far
    outs,         \* what each finished call returned (or that it threw)
    msgGets,      \* recovery fetches issued by each call
    aiCalls,      \* enrichment calls attempted by each call
    aiOutcome,    \* how the last enrichment call ended
    startDate,    \* getUserActivity's arguments
    endDate,
    pageToken,
    pc,           \* where the running call of getUserActivity is suspended
    tempToken,    \* the count pass: its page token,
    pageCount,    \*   the pages it has listed,
    uniqueThreads,\*   the thread ids it has seen
    exactTotal,
    allMessages,  \* the stubs of the listed page
    nextToken,
    totalEstimate,
    threadsToProcess, \* Array.from(threadMap.values())
    batchStart,   \* the loop variable i: where the running batch starts
    tasks,        \* the running batch: one task per thread of the chunk
    detailedEmails,
    result,       \* what getUserActivity resolved with, or that it rejected
    query,        \* the query string handed to users.messages.list
    issued,       \* history: the kinds of list call issued so far
    failed,       \* history: the kinds of call whose try block ended in its catch
    outcome,      \* history: how the task of each thread ended
    feed,         \* the pages the provider holds for the count pass's query
    ceiling       \* the page ceiling of the count pass (50 in the program)

callvars == <<threadData, msgGet, tpc, pending, outs, msgGets, aiCalls, aiOutcome>>

tvars == <<feed, ceiling, revision, threadData, rtrLabelIds, msgGet, tpc, pending, outs,
           msgGets, aiCalls, aiOutcome>>

fvars == <<startDate, endDate, pageToken, pc, tempToken, pageCount,
           uniqueThreads, exactTotal, allMessages, nextToken, totalEstimate,
           threadsToProcess, batchStart, tasks, detailedEmails, result,
           query, issued, failed, outcome>>

vars == <<tvars, fvars>>

\* pageToken = null, nextPageToken undefined
NoToken == "null"

NoResult == [kind |-> "none"]

\* getUserActivity's locals as the function's first lines leave them
\* (workspace.js:67-70, part_001:71-73)
InitLocals ==
    /\ tempToken = NoToken
    /\ pageCount = 0
    /\ uniqueThreads = {}
    /\ exactTotal = 0
    /\ allMessages = <<>>
    /\ nextToken = NoToken
    /\ totalEstimate = 0
    /\ threadsToProcess = <<>>
    /\ batchStart = 0
    /\ tasks = <<>>
    /\ detailedEmails = <<>>
    /\ result = NoResult
    /\ failed = {}
    /\ outcome = {}

\* no call of getUserActivity is running
NoFlow ==
    /\ startDate = NoDate
    /\ endDate = NoDate
    /\ pageToken = NoToken
    /\ pc = "idle"
    /\ query = <<>>
    /\ issued = {}
    /\ InitLocals

Thrown == [kind |-> "thrown"]

\* the count pass stops after this many pages (workspace.js:95)
CountCeiling == 50

\* outside the study of the count pass: no page sequence is fixed and the
\* ceiling is the program's
NoCount ==
    /\ feed = <<>>
    /\ ceiling = CountCeiling

InitCall ==
    /\ msgGet = "unknown"
    /\ tpc = "idle"
    /\ pending = Null
    /\ outs = <<>>
    /\ msgGets = <<>>
    /\ aiCalls = <<>>
    /\ aiOutcome = "none"

\* a thread object about to be classified by the inbox-only analyzeThread
InitThread ==
    /\ revision = "inbox"
    /\ threadData \in ThreadObjects(TaggedListings(InboxPool))
    /\ rtrLabelIds = {}
    /\ InitCall
    /\ NoCount
    /\ NoFlow

\* a thread object about to be classified by the all-mail analyzeThread
InitAllMail ==
    /\ revision = "allmail"
    /\ threadData \in ThreadObjects(Listings(AllMailPool))
    /\ rtrLabelIds \in {{}, {"Label_7"}}
    /\ InitCall
    /\ NoCount
    /\ NoFlow

\* a call returns (or throws) r
Return(r) ==
    /\ outs' = Append(outs, r)
    /\ tpc' = "idle"
    /\ pending' = Null

(***************************************************************************)
(* analyzeThread, inbox-only revision                                      *)
(***************************************************************************)
\* workspace.js:204-234: up to the recovery fetch.  The sort is in place:
\* the caller's thread object is left sorted.
CallAnalyzeThread ==
    /\ revision = "inbox"
    /\ tpc = "idle"
    /\ Len(outs) < MaxCalls
    /\ aiCalls' = Append(aiCalls, 0)
    /\ UNCHANGED <<feed, ceiling, revision, rtrLabelIds, msgGet, aiOutcome>>
    /\ UNCHANGED fvars
    /\ IF returnsNull(threadData)
       THEN /\ Return(Null)
            /\ msgGets' = Append(msgGets, 0)
            /\ UNCHANGED threadData
       ELSE LET sorted == sortByInternalDate(threadData.messages)
            IN  /\ threadData' = [threadData EXCEPT !.messages = sorted]
                /\ IF needsRecovery(sorted)
                   THEN /\ tpc' = "recover"
                        /\ msgGets' = Append(msgGets, 1)
                        /\ UNCHANGED <<pending, outs>>
                   ELSE /\ msgGets' = Append(msgGets, 0)
                        /\ Return(analyzeThreadResult(threadData.id, sorted, NoHeaders))

\* the provider answers the recovery fetch the same way every time
Answer(a) ==
    /\ msgGet \in {"unknown", a}
    /\ msgGet' = a

\* workspace.js:229-230: the fetch resolves, with or without headers
RecoveryResolves ==
    /\ revision = "inbox"
    /\ tpc = "recover"
    /\ \E a \in {"headers", "noheaders"} :
          /\ Answer(a)
          /\ Return(analyzeThreadResult(threadData.id, threadData.messages,
                 IF a = "headers"
                 THEN RecoveredHeaders(primaryOf(threadData.messages).id)
                 ELSE NoHeaders))
    /\ UNCHANGED <<feed, ceiling, revision, threadData, rtrLabelIds, msgGets, aiCalls, aiOutcome>>
    /\ UNCHANGED fvars

\* workspace.js:231-233: the fetch rejects and the catch block swallows it
RecoveryRejects ==
    /\ revision = "inbox"
    /\ tpc = "recover"
    /\ Answer("reject")
    /\ Return(analyzeThreadResult(threadData.id, threadData.messages, NoHeaders))
    /\ UNCHANGED <<feed, ceiling, revision, threadData, rtrLabelIds, msgGets, aiCalls, aiOutcome>>
    /\ UNCHANGED fvars

(***************************************************************************)
(* The enrichment collaborator, extractRTRDetails (part_002:244).  Its     *)
(* whole body is inside try/catch: a failing completion call (network,     *)
(* quota) or a failing JSON.parse ends in the catch block, which returns   *)
(* the placeholder record.                                                 *)
(***************************************************************************)
Completions == {"ok", "network", "parse", "quota"}

extractRTRDetails(subject, completion) ==
    IF completion = "ok" THEN Extracted ELSE Placeholder(subject)

(***************************************************************************)
(* analyzeThread, all-mail revision                                        *)
(***************************************************************************)
\* mutant: the enrichment step runs whether or not the thread is flagged
ContinueAllMailUnguarded(hlist, ai0) ==
    LET r == analyzeThreadAllMailResult(threadData.id, threadData.messages,
                                        rtrLabelIds, hlist)
    IN  IF ~getEmailBodyThrows(threadData.messages)
        THEN /\ tpc' = "enrich"
             /\ pending' = r
             /\ aiCalls' = [ai0 EXCEPT ![Len(ai0)] = 1]
             /\ UNCHANGED outs
        ELSE /\ aiCalls' = ai0
             /\ Return(Thrown)

\* part_001:171-288, from the headers on: the record is built, and for an
\* RTR thread the bodies of the last two messages are read (getEmailBody,
\* outside the try block) and the enrichment call is started.  ai0 is
\* aiCalls with the running call's entry still 0.
ContinueAllMail(hlist, ai0) ==
    LET r == analyzeThreadAllMailResult(threadData.id, threadData.messages,
                                        rtrLabelIds, hlist)
    IN  IF r.analysis.is_rtr /\ ~getEmailBodyThrows(threadData.messages)
        THEN /\ tpc' = "enrich"
             /\ pending' = r
             /\ aiCalls' = [ai0 EXCEPT ![Len(ai0)] = 1]
             /\ UNCHANGED outs
        ELSE /\ aiCalls' = ai0
             /\ Return(IF r.analysis.is_rtr THEN Thrown ELSE r)

\* part_001:137-169: up to the recovery fetch
CallAnalyzeThreadAllMail ==
    /\ revision = "allmail"
    /\ tpc = "idle"
    /\ outs = <<>>
    /\ aiOutcome' = "none"
    /\ UNCHANGED <<feed, ceiling, revision, threadData, rtrLabelIds, msgGet>>
    /\ UNCHANGED fvars
    /\ IF returnsNull(threadData)
       THEN /\ Return(Null)
            /\ msgGets' = Append(msgGets, 0)
            /\ aiCalls' = Append(aiCalls, 0)
       ELSE IF needsRecoveryAllMail(threadData.messages)
       THEN /\ tpc' = "recover"
            /\ msgGets' = Append(msgGets, 1)
            /\ aiCalls' = Append(aiCalls, 0)
            /\ UNCHANGED <<pending, outs>>
       ELSE /\ msgGets' = Append(msgGets, 0)
            /\ ContinueAllMail(ownHeaderList(primaryOfAllMail(threadData.messages)),
                               Append(aiCalls, 0))

\* part_001:157-165: the fetch resolves; headers = payload.headers || []
RecoveryResolvesAllMail ==
    /\ revision = "allmail"
    /\ tpc = "recover"
    /\ \E a \in {"headers", "noheaders"} :
          /\ Answer(a)
          /\ ContinueAllMail(
                 IF a = "headers"
                 THEN RecoveredHeaders(primaryOfAllMail(threadData.messages).id).list
                 ELSE <<>>,
                 aiCalls)
    /\ UNCHANGED <<feed, ceiling, revision, threadData, rtrLabelIds, msgGets, aiOutcome>>
    /\ UNCHANGED fvars

\* part_001:166-168: the fetch rejects; headers stays empty
RecoveryRejectsAllMail ==
    /\ revision = "allmail"
    /\ tpc = "recover"
    /\ Answer("reject")
    /\ ContinueAllMail(<<>>, aiCalls)
    /\ UNCHANGED <<feed, ceiling, revision, threadData, rtrLabelIds, msgGets, aiOutcome>>
    /\ UNCHANGED fvars

\* part_001:281-282: extractRTRDetails settles (it never rejects) and its
\* value is stored in result.ai_data
EnrichSettles ==
    /\ tpc = "enrich"
    /\ \E c \in Completions :
          /\ aiOutcome' = c
          /\ Return([pending EXCEPT
                 !.ai_data = <<extractRTRDetails(pending.original_subject, c)>>])
    /\ UNCHANGED <<feed, ceiling, revision, threadData, rtrLabelIds, msgGet, msgGets, aiCalls>>
    /\ UNCHANGED fvars

\* part_001:281-285: the expression throws before extractRTRDetails runs
\* (require('./ai') cannot load the collaborator); the catch block logs it
EnrichThrows ==
    /\ tpc = "enrich"
    /\ aiOutcome' = "throws"
    /\ Return(pending)
    /\ UNCHANGED <<feed, ceiling, revision, threadData, rtrLabelIds, msgGet, msgGets, aiCalls>>
    /\ UNCHANGED fvars

NextThread ==
    \/ CallAnalyzeThread
    \/ RecoveryResolves
    \/ RecoveryRejects

NextAllMail ==
    \/ CallAnalyzeThreadAllMail
    \/ RecoveryResolvesAllMail
    \/ RecoveryRejectsAllMail
    \/ EnrichSettles
    \/ EnrichThrows

\* the inbox-only analyzeThread called MaxCalls times on one thread object
SpecThread == InitThread /\ [][NextThread]_vars

\* the all-mail analyzeThread called once on a thread object
SpecAllMail == InitAllMail /\ [][NextAllMail]_vars



(***************************************************************************)
(* getUserActivity.  One call is followed from its first await to its      *)
(* return.  The provider's answers are chosen when the call consumes them. *)
(***************************************************************************)
\* stubs on a listed page
MaxStubs == 3

\* threads fetched concurrently; the program runs with 10 (workspace.js:132,
\* part_001:102), the model with a smaller batch so that a page of MaxStubs
\* stubs needs more than one batch
chunkSize == 2

Stub(n, t) == [id |-> n, threadId |-> t]

\* thread ids are named by the order in which a page first mentions them
FirstSeenOrder(s) ==
    \A n \in 1..Len(s) :
        \/ s[n] = 1
        \/ \E m \in 1..(n - 1) : s[m] >= s[n] - 1

\* the pages users.messages.list can answer with: messages || []
Pages ==
    { [n \in 1..Len(s) |-> Stub(n, s[n])] :
        s \in { q \in UNION { [1..n -> 1..MaxStubs] : n \in 0..MaxStubs } :
                  FirstSeenOrder(q) } }

\* the pages of the count pass: only messages(threadId) is requested
CountPages == { <<>>, <<1, 1>>, <<1, 2>> }

\* resultSizeEstimate || 0 and nextPageToken || null of the listed page
ListMetas == { [estimate |-> 0, token |-> NoToken], [estimate |-> 5, token |-> "next"] }

Label(id, name) == [id |-> id, hasName |-> TRUE, name |-> name]

Nameless(id) == [id |-> id, hasName |-> FALSE, name |-> <<>>]

\* what users.labels.list can answer with: labels || []
LabelLists ==
    { <<>>,
      <<Label("Label_7", <<"R","T","R"," ","2","4">>), Label("Label_8", <<"T","o","d","o">>)>>,
      <<Label("Label_7", <<"S","u","b","m","i","s","s","i","o","n","s">>), Nameless("Label_9")>> }

RECURSIVE collectRtrLabels(_)
\* part_001:49-53: the ids added to rtrLabelIds; l.name.toLowerCase() throws
\* on a label without a name, which ends the forEach and keeps what was added
collectRtrLabels(labels) ==
    IF labels = <<>> \/ ~Head(labels).hasName THEN {}
    ELSE (IF \/ includes(toLowerCase(Head(labels).name), <<"r","t","r">>)
             \/ includes(toLowerCase(Head(labels).name),
                         <<"s","u","b","m","i","s","s","i","o","n">>)
          THEN {Head(labels).id} ELSE {})
         \cup collectRtrLabels(Tail(labels))

\* mutant: every stub is a thread of its own
groupPerStub(msgs) == [n \in 1..Len(msgs) |-> <<msgs[n]>>]

\* workspace.js:125-131: threadMap, a Map keyed by threadId, keeps its keys in
\* the order they were first set; Array.from(threadMap.values())
groupByThread(msgs) ==
    LET firsts == { n \in 1..Len(msgs) :
                      \A m \in 1..(n - 1) : msgs[m].threadId # msgs[n].threadId }
        nth(k) == CHOOSE n \in firsts : Cardinality({m \in firsts : m < n}) = k - 1
        RECURSIVE stubsOf(_, _)
        stubsOf(t, n) ==
            IF n > Len(msgs) THEN <<>>
            ELSE (IF msgs[n].threadId = t THEN <<msgs[n]>> ELSE <<>>) \o stubsOf(t, n + 1)
    IN  [k \in 1..Cardinality(firsts) |-> stubsOf(msgs[nth(k)].threadId, 1)]

\* mutant: the items are returned in the order they were pushed
sortPushOrder(emails) == emails

\* x is put behind every item that does not sort after it
InsertDesc(sorted, x) ==
    LET keep == { n \in 1..Len(sorted) : sorted[n].sort_epoch >= x.sort_epoch }
        k == IF keep = {} THEN 0 ELSE CHOOSE n \in keep : \A m \in keep : m <= n
    IN  SubSeq(sorted, 1, k) \o <<x>> \o SubSeq(sorted, k + 1, Len(sorted))

RECURSIVE sortBySortEpoch(_)
\* workspace.js:183: detailedEmails.sort((a, b) => b.sort_epoch - a.sort_epoch),
\* a stable sort
sortBySortEpoch(emails) ==
    IF emails = <<>> THEN <<>>
    ELSE InsertDesc(sortBySortEpoch(SubSeq(emails, 1, Len(emails) - 1)),
                    emails[Len(emails)])

Max(a, b) == IF a >= b THEN a ELSE b

\* workspace.js:190 and part_002:150
\* Math.max(exactTotal, detailedEmails.length, totalEstimate);
\* part_001:131 total: totalEstimate
finalTotal(rev, exact, length, estimate) ==
    IF rev # "allmail" THEN Max(exact, Max(length, estimate)) ELSE estimate


\* tick k of the local day y-m-d
At(y, m, d, k) == daysFromCivil(y, m, d) * TicksPerDay + k

FullPayload(subject) ==
    Payload(Headers(<<Hdr("From", FromJane), Hdr("Subject", subject)>>), NoParts)

\* The mailbox: what users.threads.get can answer with for thread t.  The
\* first thread of a page is one inbound message, or has no messages; the
\* second is an inbound message that came without payload followed by a reply
\* at the tick of the first thread's message, or one message a day later; the
\* third is a Right-To-Represent message, or a message of the month before;
\* further threads repeat the three.
FlowThreads(t) ==
    LET one(ts, labels, payload) == <<Stamp(Content(ts, labels, payload), 1)>>
        held ==
            CASE t % 3 = 1 ->
                   { one(At(2024, 12, 28, 0), {"INBOX"}, FullPayload(SubjHello)) }
              [] t % 3 = 2 ->
                   { <<Stamp(Content(At(2024, 12, 27, 1), {"INBOX", "Label_7"}, NoPayload), 1),
                       Stamp(Content(At(2024, 12, 28, 0), {"SENT"}, FullPayload(SubjRe)), 2)>>,
                     one(At(2024, 12, 29, 0), {"INBOX"}, FullPayload(SubjHello)) }
              [] OTHER ->
                   { one(At(2024, 12, 28, 1), {"INBOX"}, FullPayload(SubjRightTo)),
                     one(At(2024, 11, 30, 1), {"INBOX"}, FullPayload(SubjHello)) }
    IN  (IF t % 3 = 1 THEN { [id |-> t, hasMessages |-> FALSE, messages |-> <<>>] } ELSE {})
        \cup { [id |-> t, hasMessages |-> TRUE, messages |-> l] : l \in held }

Dec01 == <<"2","0","2","4","-","1","2","-","0","1">>

Dec28 == <<"2","0","2","4","-","1","2","-","2","8">>

\* a task of the running batch: the async callback of chunk.map for one
\* thread, suspended at threads.get ("fetching"), inside analyzeThread at the
\* recovery fetch ("recovering") or at the enrichment call ("enriching"), or
\* finished ("settled")
Task(st, id, td, r) == [st |-> st, id |-> id, td |-> td, r |-> r]

\* workspace.js:148-175 and part_002:117-140 keep a record whose local date
\* is inside the range the caller gave; part_001:117-119 keeps every record
Pushed(r) ==
    IF r.kind # "thread" THEN detailedEmails
    ELSE IF revision # "allmail" /\ ~isValid(r.sort_epoch, startDate, endDate)
    THEN detailedEmails
    ELSE Append(detailedEmails, r)

\* threads.get rejected
Unfetched == [kind |-> "unfetched"]

\* mutant: a task that ends in the catch block discards what the tasks
\* before it pushed
SettleDropsSiblings(k, r) ==
    /\ tasks' = [tasks EXCEPT ![k] = Task("settled", tasks[k].id, Null, Null)]
    /\ detailedEmails' = IF r.kind \in {"unfetched", "thrown"} THEN <<>> ELSE Pushed(r)
    /\ outcome' = outcome \cup
          {[id |-> tasks[k].id, how |-> r.kind,
            sort_epoch |-> IF r.kind = "thread" THEN r.sort_epoch ELSE 0]}

\* task k finishes with record r; Null when analyzeThread returned null,
\* Unfetched or Thrown when the callback's catch block took over
Settle(k, r) ==
    /\ tasks' = [tasks EXCEPT ![k] = Task("settled", tasks[k].id, Null, Null)]
    /\ detailedEmails' = Pushed(r)
    /\ outcome' = outcome \cup
          {[id |-> tasks[k].id, how |-> r.kind,
            sort_epoch |-> IF r.kind = "thread" THEN r.sort_epoch ELSE 0]}

\* part_001:171-288 inside the task: the record, and for an RTR thread the
\* body read (its TypeError ends in the callback's catch block) and the
\* enrichment call
ContinueTask(k, td, hlist) ==
    LET r == analyzeThreadAllMailResult(td.id, td.messages, rtrLabelIds, hlist)
    IN  IF ~r.analysis.is_rtr THEN Settle(k, r)
        ELSE IF getEmailBodyThrows(td.messages) THEN Settle(k, Thrown)
        ELSE /\ tasks' = [tasks EXCEPT ![k] = Task("enriching", tasks[k].id, td, r)]
             /\ UNCHANGED <<detailedEmails, outcome>>

\* the loop of workspace.js:134-180 from index n on: the next chunk's tasks
\* start, or the loop is over and the function sorts, attaches meta and
\* returns (workspace.js:183-199, part_001:128-133)
RunFrom(n, threads, emails, messages, token, estimate) ==
    IF n < Len(threads)
    THEN /\ pc' = "batch"
         /\ batchStart' = n
         /\ tasks' = [k \in 1..(IF Len(threads) - n < chunkSize
                                THEN Len(threads) - n ELSE chunkSize) |->
                         Task("fetching", threads[n + k][1].threadId, Null, Null)]
         /\ detailedEmails' = emails
         /\ UNCHANGED result
    ELSE /\ pc' = "done"
         /\ batchStart' = n
         /\ tasks' = <<>>
         /\ detailedEmails' = sortBySortEpoch(emails)
         /\ result' = [kind |-> "resolved",
                       items |-> sortBySortEpoch(emails),
                       meta |-> [fetched |-> Len(messages),
                                 nextToken |-> token,
                                 total |-> finalTotal(revision, exactTotal, Len(emails),
                                                      estimate)]]


\* mutant: the count pass runs on every request
firstAwaitCounts(rev, token) == IF rev = "allmail" THEN "labels" ELSE "count"

\* what getUserActivity awaits first: users.labels.list (part_001:47), the
\* first list call of the count pass when no page token was given
\* (workspace.js:74 and 82, part_002:45 and 53), else the page list
firstAwait(rev, token) ==
    IF rev = "allmail" THEN "labels"
    ELSE IF token = NoToken THEN "count" ELSE "list"

\* a call of getUserActivity at its first await: users.labels.list
\* (part_001:47), the first list call of the count pass (workspace.js:82) or,
\* with a page token, the page list (workspace.js:107)
Init ==
    /\ revision \in {"inbox", "sent", "allmail"}
    /\ startDate \in {NoDate, Dec01}
    /\ endDate \in {NoDate, Dec28}
    /\ pageToken \in {NoToken, "page2"}
    /\ pc = firstAwait(revision, pageToken)
    /\ query = buildQuery(revision, startDate, endDate)
    /\ issued = {firstAwait(revision, pageToken)}
    /\ rtrLabelIds = {}
    /\ threadData = [id |-> 0, hasMessages |-> FALSE, messages |-> <<>>]
    /\ InitCall
    /\ NoCount
    /\ InitLocals

\* part_001:47-56: the label list resolves; a label without a name makes
\* the forEach throw into the catch block
LabelsResolve ==
    /\ pc = "labels"
    /\ \E labels \in LabelLists :
          /\ rtrLabelIds' = collectRtrLabels(labels)
          /\ failed' = failed \cup (IF \E n \in 1..Len(labels) : ~labels[n].hasName
                                   THEN {"labels"} ELSE {})
    /\ pc' = "list"
    /\ issued' = issued \cup {"list"}
    /\ UNCHANGED outcome
    /\ UNCHANGED <<feed, ceiling, revision, callvars, query, startDate, endDate, pageToken, tempToken,
                   pageCount, uniqueThreads, exactTotal, allMessages, nextToken,
                   totalEstimate, threadsToProcess, batchStart, tasks,
                   detailedEmails, result>>

\* part_001:54-56: the label list rejects; the catch block logs it
LabelsReject ==
    /\ pc = "labels"
    /\ pc' = "list"
    /\ issued' = issued \cup {"list"}
    /\ failed' = failed \cup {"labels"}
    /\ UNCHANGED outcome
    /\ UNCHANGED <<feed, ceiling, revision, rtrLabelIds, callvars, query, startDate, endDate, pageToken,
                   tempToken, pageCount, uniqueThreads, exactTotal, allMessages,
                   nextToken, totalEstimate, threadsToProcess, batchStart, tasks,
                   detailedEmails, result>>

\* workspace.js:82-98: a list call of the count pass resolves; the loop goes
\* on while the page carried a token and pageCount has not passed the
\* ceiling, and then exactTotal is the size of the set.  tempToken, pageCount
\* and uniqueThreads are locals of the block and end with it.
CountPageResolves ==
    /\ pc = "count"
    /\ \E page \in CountPages, token \in {NoToken, "more"} :
          LET seen == uniqueThreads \cup {page[n] : n \in 1..Len(page)}
          IN  IF pageCount + 1 > CountCeiling \/ token = NoToken
              THEN /\ exactTotal' = Cardinality(seen)
                   /\ pc' = "list"
                   /\ issued' = issued \cup {"list"}
                   /\ uniqueThreads' = {}
                   /\ tempToken' = NoToken
                   /\ pageCount' = 0
              ELSE /\ uniqueThreads' = seen
                   /\ tempToken' = token
                   /\ pageCount' = pageCount + 1
                   /\ UNCHANGED <<exactTotal, pc, issued>>
    /\ UNCHANGED <<failed, outcome>>
    /\ UNCHANGED <<feed, ceiling, revision, rtrLabelIds, callvars, query, startDate, endDate, pageToken,
                   allMessages, nextToken, totalEstimate, threadsToProcess,
                   batchStart, tasks, detailedEmails, result>>

\* mutant: a failed list call of the count pass keeps the ids counted so far
CountPageRejectsKeepsPartial ==
    /\ pc = "count"
    /\ pc' = "list"
    /\ issued' = issued \cup {"list"}
    /\ failed' = failed \cup {"count"}
    /\ UNCHANGED outcome
    /\ exactTotal' = Cardinality(uniqueThreads)
    /\ uniqueThreads' = {}
    /\ tempToken' = NoToken
    /\ pageCount' = 0
    /\ UNCHANGED <<feed, ceiling, revision, rtrLabelIds, callvars, query, startDate, endDate, pageToken,
                   allMessages,
                   nextToken, totalEstimate, threadsToProcess, batchStart, tasks,
                   detailedEmails, result>>

\* workspace.js:100-102: a list call of the count pass rejects; exactTotal
\* keeps its 0
CountPageRejects ==
    /\ pc = "count"
    /\ pc' = "list"
    /\ issued' = issued \cup {"list"}
    /\ failed' = failed \cup {"count"}
    /\ UNCHANGED outcome
    /\ uniqueThreads' = {}
    /\ tempToken' = NoToken
    /\ pageCount' = 0
    /\ UNCHANGED <<feed, ceiling, revision, rtrLabelIds, callvars, query, startDate, endDate, pageToken,
                   exactTotal, allMessages,
                   nextToken, totalEstimate, threadsToProcess, batchStart, tasks,
                   detailedEmails, result>>

\* workspace.js:107-134: the page list resolves, the stubs are grouped and
\* the first batch starts
ListResolves ==
    /\ pc = "list"
    /\ \E page \in Pages, meta \in ListMetas :
          /\ allMessages' = page
          /\ nextToken' = meta.token
          /\ totalEstimate' = meta.estimate
          /\ threadsToProcess' = groupByThread(page)
          /\ RunFrom(0, groupByThread(page), <<>>, page, meta.token, meta.estimate)
    /\ UNCHANGED <<issued, failed, outcome>>
    /\ UNCHANGED <<feed, ceiling, revision, rtrLabelIds, callvars, query, startDate, endDate, pageToken,
                   tempToken, pageCount, uniqueThreads, exactTotal>>

\* mutant: a rejected page list is logged and answered as an empty page
ListRejectsSoftly ==
    /\ pc = "list"
    /\ failed' = failed \cup {"list"}
    /\ allMessages' = <<>>
    /\ nextToken' = NoToken
    /\ totalEstimate' = 0
    /\ threadsToProcess' = <<>>
    /\ RunFrom(0, <<>>, <<>>, <<>>, NoToken, 0)
    /\ UNCHANGED <<issued, outcome>>
    /\ UNCHANGED <<feed, ceiling, revision, rtrLabelIds, callvars, query, startDate, endDate, pageToken,
                   tempToken, pageCount, uniqueThreads, exactTotal>>

\* workspace.js:116-119: the page list rejects and getUserActivity rethrows
ListRejects ==
    /\ pc = "list"
    /\ pc' = "threw"
    /\ result' = [kind |-> "rejected"]
    /\ failed' = failed \cup {"list"}
    /\ UNCHANGED <<issued, outcome>>
    /\ UNCHANGED <<feed, ceiling, revision, rtrLabelIds, callvars, query, startDate, endDate, pageToken,
                   tempToken, pageCount, uniqueThreads, exactTotal, allMessages,
                   nextToken, totalEstimate, threadsToProcess, batchStart, tasks,
                   detailedEmails>>

\* the record analyzeThread (workspace.js:236-276) or analyzeSentThread
\* (part_002:189-213) returns
recordOf(id, msgs, fetched) ==
    IF revision = "inbox" THEN analyzeThreadResult(id, msgs, fetched)
    ELSE analyzeSentThreadResult(id, msgs, fetched)

\* what no step of a task changes
taskFrame == <<feed, ceiling, revision, rtrLabelIds, callvars, query, startDate, endDate, pageToken,
               pc, tempToken, pageCount, uniqueThreads, exactTotal, allMessages,
               nextToken, totalEstimate, threadsToProcess, batchStart, result,
               issued, failed>>

\* workspace.js:140-147 and 204-234, part_001:110-117 and 137-169:
\* threads.get resolves and analyzeThread runs up to its first await
ThreadResolves(k) ==
    /\ pc = "batch"
    /\ k \in DOMAIN tasks
    /\ tasks[k].st = "fetching"
    /\ \E td \in FlowThreads(tasks[k].id) :
          IF returnsNull(td) THEN Settle(k, Null)
          ELSE IF revision # "allmail"
          THEN LET sorted == sortByInternalDate(td.messages)
               IN  IF (IF revision = "inbox" THEN needsRecovery(sorted)
                       ELSE needsRecoverySent(sorted))
                   THEN /\ tasks' = [tasks EXCEPT ![k] =
                               Task("recovering", td.id, [td EXCEPT !.messages = sorted], Null)]
                        /\ UNCHANGED <<detailedEmails, outcome>>
                   ELSE Settle(k, recordOf(td.id, sorted, NoHeaders))
          ELSE IF needsRecoveryAllMail(td.messages)
          THEN /\ tasks' = [tasks EXCEPT ![k] = Task("recovering", td.id, td, Null)]
               /\ UNCHANGED <<detailedEmails, outcome>>
          ELSE ContinueTask(k, td, ownHeaderList(primaryOfAllMail(td.messages)))
    /\ UNCHANGED taskFrame

\* mutant: a rejected threads.get rejects the whole request
ThreadRejectsAborts(k) ==
    /\ pc = "batch"
    /\ k \in DOMAIN tasks
    /\ tasks[k].st = "fetching"
    /\ pc' = "threw"
    /\ result' = [kind |-> "rejected"]
    /\ outcome' = outcome \cup {[id |-> tasks[k].id, how |-> "unfetched", sort_epoch |-> 0]}
    /\ UNCHANGED <<feed, ceiling, revision, rtrLabelIds, callvars, query, startDate, endDate, pageToken,
                   tempToken, pageCount, uniqueThreads, exactTotal, allMessages,
                   nextToken, totalEstimate, threadsToProcess, batchStart, tasks,
                   detailedEmails, issued, failed>>

\* workspace.js:176-178, part_002:141-143, part_001:121-123: threads.get
\* rejects and the callback's catch block logs it
ThreadRejects(k) ==
    /\ pc = "batch"
    /\ k \in DOMAIN tasks
    /\ tasks[k].st = "fetching"
    /\ Settle(k, Unfetched)
    /\ UNCHANGED taskFrame

\* workspace.js:229-230, part_001:157-165: the recovery fetch resolves
TaskRecoveryResolves(k) ==
    /\ pc = "batch"
    /\ k \in DOMAIN tasks
    /\ tasks[k].st = "recovering"
    /\ \E a \in {"headers", "noheaders"} :
          LET td == tasks[k].td
          IN  IF revision # "allmail"
              THEN Settle(k, recordOf(td.id, td.messages,
                          IF a = "headers"
                          THEN RecoveredHeaders(IF revision = "inbox"
                                                THEN primaryOf(td.messages).id
                                                ELSE latestOf(td.messages).id)
                          ELSE NoHeaders))
              ELSE ContinueTask(k, td,
                          IF a = "headers"
                          THEN RecoveredHeaders(primaryOfAllMail(td.messages).id).list
                          ELSE <<>>)
    /\ UNCHANGED taskFrame

\* workspace.js:231-233, part_001:166-168: the recovery fetch rejects
TaskRecoveryRejects(k) ==
    /\ pc = "batch"
    /\ k \in DOMAIN tasks
    /\ tasks[k].st = "recovering"
    /\ LET td == tasks[k].td
       IN  IF revision # "allmail"
           THEN Settle(k, recordOf(td.id, td.messages, NoHeaders))
           ELSE ContinueTask(k, td, <<>>)
    /\ UNCHANGED taskFrame

\* part_001:281-282: extractRTRDetails settles
TaskEnrichSettles(k) ==
    /\ pc = "batch"
    /\ k \in DOMAIN tasks
    /\ tasks[k].st = "enriching"
    /\ \E c \in Completions :
          Settle(k, [tasks[k].r EXCEPT
                 !.ai_data = <<extractRTRDetails(tasks[k].r.original_subject, c)>>])
    /\ UNCHANGED taskFrame

\* part_001:283-285: the enrichment expression throws; the catch block logs it
TaskEnrichThrows(k) ==
    /\ pc = "batch"
    /\ k \in DOMAIN tasks
    /\ tasks[k].st = "enriching"
    /\ Settle(k, tasks[k].r)
    /\ UNCHANGED taskFrame

\* mutant: after a chunk the loop starts over from the first thread with an
\* empty list of records
BatchDoneRestarts ==
    /\ pc = "batch"
    /\ \A k \in DOMAIN tasks : tasks[k].st = "settled"
    /\ RunFrom(0, threadsToProcess, <<>>,
               allMessages, nextToken, totalEstimate)
    /\ UNCHANGED <<issued, failed, outcome>>
    /\ UNCHANGED <<feed, ceiling, revision, rtrLabelIds, callvars, query, startDate, endDate, pageToken,
                   tempToken, pageCount, uniqueThreads, exactTotal, allMessages,
                   nextToken, totalEstimate, threadsToProcess>>

\* workspace.js:136 and 180: Promise.all resolves when every task of the
\* batch has settled, and the loop goes on with i += chunkSize
BatchDone ==
    /\ pc = "batch"
    /\ \A k \in DOMAIN tasks : tasks[k].st = "settled"
    /\ RunFrom(batchStart + chunkSize, threadsToProcess, detailedEmails,
               allMessages, nextToken, totalEstimate)
    /\ UNCHANGED <<issued, failed, outcome>>
    /\ UNCHANGED <<feed, ceiling, revision, rtrLabelIds, callvars, query, startDate, endDate, pageToken,
                   tempToken, pageCount, uniqueThreads, exactTotal, allMessages,
                   nextToken, totalEstimate, threadsToProcess>>

Next ==
    \/ LabelsResolve
    \/ LabelsReject
    \/ CountPageResolves
    \/ CountPageRejects
    \/ ListResolves
    \/ ListRejects
    \/ \E k \in 1..chunkSize : ThreadResolves(k)
    \/ \E k \in 1..chunkSize : ThreadRejects(k)
    \/ \E k \in 1..chunkSize : TaskRecoveryResolves(k)
    \/ \E k \in 1..chunkSize : TaskRecoveryRejects(k)
    \/ \E k \in 1..chunkSize : TaskEnrichSettles(k)
    \/ \E k \in 1..chunkSize : TaskEnrichThrows(k)
    \/ BatchDone

\* one call of getUserActivity, of either revision
Spec == Init /\ [][Next]_vars

\* task k of the running chunk waits at the await of threads.get
\* ("fetching"), of the recovery fetch ("recovering") or of the enrichment
\* call ("enriching")
Awaiting(k, st) ==
    /\ pc = "batch"
    /\ k \in DOMAIN tasks
    /\ tasks[k].st = st

\* every task of the running chunk has settled: Promise.all resolves and
\* the loop of workspace.js:134 goes on
ChunkSettled ==
    /\ pc = "batch"
    /\ \A k \in DOMAIN tasks : tasks[k].st = "settled"

\* one call of getUserActivity when every provider call that is awaited
\* settles in the end: the label list, each page list of the count pass and
\* the page list resolve or reject, no task waits at one of its awaits for
\* ever, and the continuation of Promise.all runs once every task of the
\* chunk has settled. The last two are stated on the states in which the
\* step is the only one possible, which is what weak fairness of the step
\* amounts to there
SpecLive ==
    /\ Init
    /\ [][Next]_vars
    /\ WF_vars(LabelsResolve \/ LabelsReject)
    /\ WF_vars(CountPageResolves \/ CountPageRejects)
    /\ WF_vars(ListResolves \/ ListRejects)
    /\ \A k \in 1..chunkSize :
          \A st \in {"fetching", "recovering", "enriching"} :
             []<>~Awaiting(k, st)
    /\ []<>~ChunkSettled

(***************************************************************************)

(* The earlier getUserActivity kept in workspace.js:344-459 and its        *)
(* analyzeThread (workspace.js:462-550): the client is obtained inside the *)
(* function, the page list is a loop over every page, and the threads are  *)
(* fetched by one Promise.all.  It is called here without a date range.    *)
(***************************************************************************)
\* workspace.js:405: if (pageCount > 20) break;
ListCeiling == 20

\* workspace.js:432: Array.from(threadMap.values()).slice(0, 50)
threadLimit == 50

\* list pages that carry a cursor
MaxListPages == 2

\* const targetNames = ['rtr', 'rate confirmation', 'submission',
\*                      'submissions', 'rate confirmed'];
targetNames ==
    << <<"r","t","r">>,
       <<"r","a","t","e"," ","c","o","n","f","i","r","m","a","t","i","o","n">>,
       <<"s","u","b","m","i","s","s","i","o","n">>,
       <<"s","u","b","m","i","s","s","i","o","n","s">>,
       <<"r","a","t","e"," ","c","o","n","f","i","r","m","e","d">> >>

\* workspace.js:356-360: the ids of the labels with a name that contains a
\* target name
collectRtrLabelsLegacy(labels) ==
    {labels[n].id : n \in {m \in 1..Len(labels) :
        /\ labels[m].hasName
        /\ labels[m].name # <<>>
        /\ \E t \in 1..Len(targetNames) :
              includes(toLowerCase(labels[m].name), targetNames[t])}}

RECURSIVE resumeFilesLegacy(_)
\* workspace.js:486-495: the filenames with 'resume' or 'cv' of the parts of
\* every message, in order
resumeFilesLegacy(msgs) ==
    LET named(parts) ==
            SelectSeq(parts, LAMBDA part :
                /\ part.filename # <<>>
                /\ \/ includes(toLowerCase(part.filename), keywords[1])
                   \/ includes(toLowerCase(part.filename), keywords[2]))
        files(m) == IF m.payload.present /\ m.payload.parts.present
                    THEN [n \in 1..Len(named(m.payload.parts.list)) |->
                             named(m.payload.parts.list)[n].filename]
                    ELSE <<>>
    IN  IF msgs = <<>> THEN <<>>
        ELSE files(Head(msgs)) \o resumeFilesLegacy(Tail(msgs))

\* an absent Date header: new Date().toISOString()
Now == "now"

\* workspace.js:463-521: the record built before the enrichment step
analyzeThreadLegacyResult(id, msgs, labelIds) ==
    LET headers == payloadHeaders(msgs[Len(msgs)])
        resumeFiles == resumeFilesLegacy(msgs)
    IN  [kind |-> "thread",
         id |-> id,
         timestamp |-> headerValue(headers, "Date", Now),
         subject |-> headerValue(headers, "Subject", NoSubject),
         from |-> "Thread View",
         analysis |-> [has_resume |-> resumeFiles # <<>>,
                       resume_filenames |-> uniqueInOrder(resumeFiles),
                       is_rtr |-> isRtrThread(msgs, labelIds),
                       is_sent |-> \E i \in 1..Len(msgs) : hasLabel(msgs[i], "SENT"),
                       is_inbox |-> \E i \in 1..Len(msgs) : hasLabel(msgs[i], "INBOX")],
         ai_data |-> NoAi]

\* a call of the earlier getUserActivity at `await getImpersonatedClient`
InitLegacy ==
    /\ revision = "legacy"
    /\ startDate = NoDate
    /\ endDate = NoDate
    /\ pageToken = NoToken
    /\ pc = "auth"
    /\ query = <<>>
    /\ issued = {"auth"}
    /\ rtrLabelIds = {}
    /\ threadData = [id |-> 0, hasMessages |-> FALSE, messages |-> <<>>]
    /\ InitCall
    /\ NoCount
    /\ InitLocals

\* what no step before the thread tasks changes
listFrame == <<feed, ceiling, revision, callvars, startDate, endDate, pageToken, tempToken,
               uniqueThreads, exactTotal, totalEstimate, batchStart, outcome>>

\* workspace.js:346-347 and 367: the client is there and the query is built
LegacyAuthResolves ==
    /\ pc = "auth"
    /\ pc' = "labels"
    /\ query' = baseQuery("allmail")
    /\ issued' = issued \cup {"labels"}
    /\ UNCHANGED <<rtrLabelIds, pageCount, allMessages, nextToken, threadsToProcess,
                   tasks, detailedEmails, result, failed>>
    /\ UNCHANGED listFrame

\* workspace.js:346: getImpersonatedClient rejects and so does the call
LegacyAuthRejects ==
    /\ pc = "auth"
    /\ pc' = "threw"
    /\ result' = [kind |-> "rejected"]
    /\ failed' = failed \cup {"auth"}
    /\ UNCHANGED <<rtrLabelIds, pageCount, allMessages, nextToken, threadsToProcess,
                   tasks, detailedEmails, query, issued>>
    /\ UNCHANGED listFrame

\* workspace.js:352-361: the label list resolves
LegacyLabelsResolve ==
    /\ pc = "labels"
    /\ \E labels \in LabelLists : rtrLabelIds' = collectRtrLabelsLegacy(labels)
    /\ pc' = "list"
    /\ issued' = issued \cup {"list"}
    /\ UNCHANGED <<pageCount, allMessages, nextToken, threadsToProcess,
                   tasks, detailedEmails, result, query, failed>>
    /\ UNCHANGED listFrame

\* workspace.js:362-364: the label list rejects; the catch block logs it
LegacyLabelsReject ==
    /\ pc = "labels"
    /\ pc' = "list"
    /\ issued' = issued \cup {"list"}
    /\ failed' = failed \cup {"labels"}
    /\ UNCHANGED <<rtrLabelIds, pageCount, allMessages, nextToken, threadsToProcess,
                   tasks, detailedEmails, result, query>>
    /\ UNCHANGED listFrame

\* the pages the loop's list calls can answer with: the first page any page,
\* a later one empty or one more stub of the first thread
LaterPages(n) == IF n = 0 THEN Pages ELSE {<<>>, <<Stub(MaxStubs + n, 1)>>}

\* workspace.js:392-456: a list call of the loop resolves.  The loop goes on
\* while the page carried a token and pageCount has not passed the ceiling;
\* after it the stubs are grouped, at most threadLimit threads are kept and a
\* task is started for every one of them at once; without any thread
\* Promise.all resolves at once and the function returns
LegacyListResolves ==
    /\ pc = "list"
    /\ \E page \in LaterPages(pageCount),
          token \in {NoToken} \cup (IF pageCount + 1 < MaxListPages THEN {"more"} ELSE {}) :
          LET messages == allMessages \o page
              grouped == groupByThread(messages)
              threads == SubSeq(grouped, 1, IF Len(grouped) < threadLimit
                                            THEN Len(grouped) ELSE threadLimit)
          IN  /\ allMessages' = messages
              /\ nextToken' = token
              /\ pageCount' = pageCount + 1
              /\ IF token # NoToken /\ ~(pageCount + 1 > ListCeiling)
                 THEN UNCHANGED <<pc, threadsToProcess, tasks, result>>
                 ELSE /\ threadsToProcess' = threads
                      /\ tasks' = [k \in 1..Len(threads) |->
                                      Task("fetching", threads[k][1].threadId, Null, Null)]
                      /\ IF threads = <<>>
                         THEN pc' = "done" /\ result' = [kind |-> "resolved", items |-> <<>>]
                         ELSE pc' = "all" /\ UNCHANGED result
    /\ UNCHANGED <<rtrLabelIds, detailedEmails, query, issued, failed>>
    /\ UNCHANGED listFrame

\* workspace.js:407-410: a list call of the loop rejects and getUserActivity
\* rethrows
LegacyListRejects ==
    /\ pc = "list"
    /\ pc' = "threw"
    /\ result' = [kind |-> "rejected"]
    /\ failed' = failed \cup {"list"}
    /\ UNCHANGED <<rtrLabelIds, pageCount, allMessages, nextToken, threadsToProcess,
                   tasks, detailedEmails, query, issued>>
    /\ UNCHANGED listFrame

\* what no step of a task of the earlier getUserActivity changes
legacyFrame == <<feed, ceiling, revision, rtrLabelIds, callvars, query, startDate, endDate, pageToken,
                 pc, tempToken, pageCount, uniqueThreads, exactTotal, allMessages,
                 nextToken, totalEstimate, threadsToProcess, batchStart, result,
                 issued, failed>>

\* task k finishes: `if (analysis) detailedEmails.push(analysis)` when r is a
\* record (workspace.js:449-450), nothing otherwise
SettleLegacy(k, r) ==
    /\ tasks' = [tasks EXCEPT ![k] = Task("settled", tasks[k].id, Null, Null)]
    /\ detailedEmails' = IF r.kind = "thread" THEN Append(detailedEmails, r)
                         ELSE detailedEmails
    /\ outcome' = outcome \cup {[id |-> tasks[k].id, how |-> r.kind, sort_epoch |-> 0]}

\* workspace.js:442-449 and 462-545: threads.get resolves and analyzeThread
\* runs up to its await; getEmailBody's TypeError ends in the task's catch
\* block
LegacyThreadResolves(k) ==
    /\ pc = "all"
    /\ k \in DOMAIN tasks
    /\ tasks[k].st = "fetching"
    /\ \E td \in FlowThreads(tasks[k].id) :
          IF td.messages = <<>> THEN SettleLegacy(k, Null)
          ELSE LET r == analyzeThreadLegacyResult(td.id, td.messages, rtrLabelIds)
               IN  IF ~r.analysis.is_rtr THEN SettleLegacy(k, r)
                   ELSE IF getEmailBodyThrows(td.messages) THEN SettleLegacy(k, Thrown)
                   ELSE /\ tasks' = [tasks EXCEPT ![k] =
                                        Task("enriching", tasks[k].id, td, r)]
                        /\ UNCHANGED <<detailedEmails, outcome>>
    /\ UNCHANGED legacyFrame

\* workspace.js:452-454: threads.get rejects and the task's catch block logs it
LegacyThreadRejects(k) ==
    /\ pc = "all"
    /\ k \in DOMAIN tasks
    /\ tasks[k].st = "fetching"
    /\ SettleLegacy(k, Unfetched)
    /\ UNCHANGED legacyFrame

\* workspace.js:545-549: extractRTRDetails settles and the record is returned
LegacyEnrichSettles(k) ==
    /\ pc = "all"
    /\ k \in DOMAIN tasks
    /\ tasks[k].st = "enriching"
    /\ \E c \in Completions :
          SettleLegacy(k, [tasks[k].r EXCEPT
                 !.ai_data = <<extractRTRDetails(tasks[k].r.subject, c)>>])
    /\ UNCHANGED legacyFrame

\* workspace.js:545: the awaited expression throws (require('./ai') fails);
\* analyzeThread rejects and the task's catch block logs it
LegacyEnrichThrows(k) ==
    /\ pc = "all"
    /\ k \in DOMAIN tasks
    /\ tasks[k].st = "enriching"
    /\ SettleLegacy(k, Thrown)
    /\ UNCHANGED legacyFrame

\* workspace.js:434 and 456-458: Promise.all resolves when every task has
\* settled and detailedEmails is returned as it is
LegacyAllDone ==
    /\ pc = "all"
    /\ \A k \in DOMAIN tasks : tasks[k].st = "settled"
    /\ pc' = "done"
    /\ result' = [kind |-> "resolved", items |-> detailedEmails]
    /\ UNCHANGED <<feed, ceiling, revision, rtrLabelIds, callvars, query, startDate, endDate, pageToken,
                   tempToken, pageCount, uniqueThreads, exactTotal, allMessages,
                   nextToken, totalEstimate, threadsToProcess, batchStart, tasks,
                   detailedEmails, issued, failed, outcome>>

NextLegacy ==
    \/ LegacyAuthResolves
    \/ LegacyAuthRejects
    \/ LegacyLabelsResolve
    \/ LegacyLabelsReject
    \/ LegacyListResolves
    \/ LegacyListRejects
    \/ \E k \in 1..(MaxStubs + MaxListPages) : LegacyThreadResolves(k)
    \/ \E k \in 1..(MaxStubs + MaxListPages) : LegacyThreadRejects(k)
    \/ \E k \in 1..(MaxStubs + MaxListPages) : LegacyEnrichSettles(k)
    \/ \E k \in 1..(MaxStubs + MaxListPages) : LegacyEnrichThrows(k)
    \/ LegacyAllDone

\* one call of the earlier getUserActivity
SpecLegacy == InitLegacy /\ [][NextLegacy]_vars

\* the date string YYYY-MM-DD of a calendar day
Ymd(y, m, d) == numStr(y) \o <<"-">> \o pad2(m) \o <<"-">> \o pad2(d)

\* range ends a caller may give: first and last day of a year, first and
\* last day of a month, around the leap day, in the middle of a month
QueryDates ==
    {Ymd(2024, 1, 1), Ymd(2024, 12, 31), Ymd(2024, 3, 1), Ymd(2024, 2, 28),
     Ymd(2023, 2, 28), Ymd(2024, 11, 30), Ymd(2024, 12, 15)}

\* a call of getUserActivity or getUserSentActivity before its first line
InitQuery ==
    /\ revision \in {"inbox", "sent", "allmail"}
    /\ startDate \in QueryDates \cup {NoDate}
    /\ endDate \in QueryDates \cup {NoDate}
    /\ pageToken = NoToken
    /\ pc = "start"
    /\ query = <<>>
    /\ issued = {}
    /\ rtrLabelIds = {}
    /\ threadData = [id |-> 0, hasMessages |-> FALSE, messages |-> <<>>]
    /\ InitCall
    /\ NoCount
    /\ InitLocals

\* workspace.js:30-63, part_002:7-35, part_001:58-69: the query is built
BuildQuery ==
    /\ pc = "start"
    /\ pc' = "built"
    /\ query' = buildQuery(revision, startDate, endDate)
    /\ UNCHANGED <<tvars, startDate, endDate, pageToken, tempToken, pageCount,
                   uniqueThreads, exactTotal, allMessages, nextToken, totalEstimate,
                   threadsToProcess, batchStart, tasks, detailedEmails, result,
                   issued, failed, outcome>>

NextQuery == BuildQuery

\* the construction of the provider query, for every revision and range
SpecQuery == InitQuery /\ [][NextQuery]_vars

(***************************************************************************)
(* The count pass of workspace.js:74-103 on a fixed page sequence: the     *)
(* provider answers the query with the pages of `feed` in order and gives  *)
(* a cursor with every page but the last.  The ceiling is a parameter      *)
(* here; the program's is CountCeiling.                                    *)
(***************************************************************************)
\* pages the provider holds for one query
MaxFeed == 3

\* the thread ids of one page of the count pass
FeedPages == CountPages \cup {<<3>>}

Feeds == UNION {[1..n -> FeedPages] : n \in 1..MaxFeed}

Ceilings == {1, 2, CountCeiling}

\* the thread ids on the first n pages
idsOn(pages, n) == UNION {{pages[k][j] : j \in 1..Len(pages[k])} : k \in 1..n}

RECURSIVE stubsOn(_, _)
\* the number of stubs on the first n pages
stubsOn(pages, n) == IF n = 0 THEN 0 ELSE stubsOn(pages, n - 1) + Len(pages[n])

RECURSIVE countLoop(_, _, _, _)
\* workspace.js:81-96: the do-while loop from the list call for page `at`
\* on, with `listed` pages listed before it; the pages it has listed when
\* it ends
countLoop(pages, limit, at, listed) ==
    IF listed + 1 > limit \/ at = Len(pages) THEN listed + 1
    ELSE countLoop(pages, limit, at + 1, listed + 1)

\* mutant: every stub is counted, not every thread
countPassStubs(pages, limit) ==
    [listed |-> countLoop(pages, limit, 1, 0),
     size |-> stubsOn(pages, countLoop(pages, limit, 1, 0))]

\* workspace.js:77-98: pageCount and uniqueThreads.size when the loop ends
countPass(pages, limit) ==
    [listed |-> countLoop(pages, limit, 1, 0),
     size |-> Cardinality(idsOn(pages, countLoop(pages, limit, 1, 0)))]

\* a first-page call of getUserActivity before its count pass
InitCount ==
    /\ revision \in {"inbox", "sent"}
    /\ feed \in Feeds
    /\ ceiling \in Ceilings
    /\ startDate = NoDate
    /\ endDate = NoDate
    /\ pageToken = NoToken
    /\ pc = "count"
    /\ query = buildQuery(revision, NoDate, NoDate)
    /\ issued = {"count"}
    /\ rtrLabelIds = {}
    /\ threadData = [id |-> 0, hasMessages |-> FALSE, messages |-> <<>>]
    /\ InitCall
    /\ InitLocals

\* workspace.js:74-99: the count pass runs to its end without a failure and
\* exactTotal is set; the page list is awaited next
RunCountPass ==
    /\ pc = "count"
    /\ pc' = "list"
    /\ pageCount' = countPass(feed, ceiling).listed
    /\ exactTotal' = countPass(feed, ceiling).size
    /\ issued' = issued \cup {"list"}
    /\ UNCHANGED <<tvars, startDate, endDate, pageToken, tempToken,
                   uniqueThreads, allMessages, nextToken, totalEstimate,
                   threadsToProcess, batchStart, tasks, detailedEmails, result,
                   query, failed, outcome>>

NextCount == RunCountPass

\* the count pass for every page sequence and ceiling
SpecCount == InitCount /\ [][NextCount]_vars

(* Properties of the classification                                        *)
(***************************************************************************)
\* the finished calls that returned a record
Returned == {k \in 1..Len(outs) : outs[k].kind = "thread"}

Messages == {threadData.messages[i] : i \in 1..Len(threadData.messages)}

\* Among the messages with the smallest internalDate, the one the provider
\* listed first (message i of the listing has id i).
EarliestListed ==
    CHOOSE m \in Messages : \A n \in Messages :
        \/ m.internalDate < n.internalDate
        \/ m.internalDate = n.internalDate /\ m.id <= n.id

\* Among the messages with the greatest internalDate, the one listed last.
LatestListed ==
    CHOOSE m \in Messages : \A n \in Messages :
        \/ m.internalDate > n.internalDate
        \/ m.internalDate = n.internalDate /\ m.id >= n.id

\* C5 as stated: is_replied is true iff the thread has more than one message,
\* the first message by internalTimestamp is not SENT and the latest message
\* by internalTimestamp is SENT, whatever the provider's listing order: so
\* for every message f carrying the smallest internalDate and every message
\* l carrying the greatest.
C5_RepliedByTimestampAlone ==
    \A k \in Returned : \A f, l \in Messages :
        (/\ \A n \in Messages : f.internalDate <= n.internalDate
         /\ \A n \in Messages : l.internalDate >= n.internalDate)
        => (outs[k].analysis.is_replied
              <=> (/\ Cardinality(Messages) > 1
                   /\ "SENT" \notin f.labelIds
                   /\ "SENT" \in l.labelIds))

\* C5 amended: is_replied is true iff the thread has more than one message,
\* the first message is not SENT and the latest is SENT, where the first is
\* the earliest by internalDate (the first listed among equals) and the
\* latest is the greatest by internalDate (the last listed among equals).
C5_RepliedStrict ==
    \A k \in Returned :
        outs[k].analysis.is_replied
          <=> (/\ Cardinality(Messages) > 1
               /\ "SENT" \notin EarliestListed.labelIds
               /\ "SENT" \in LatestListed.labelIds)

\* C5 witness: the provider listed a sent reply before the inbound message it
\* answers, and the thread is reported replied.
C5_Witness ==
    /\ revision = "inbox"
    /\ Len(threadData.messages) = 2
    /\ threadData.messages[1].id = 2
    /\ threadData.messages[1].internalDate < threadData.messages[2].internalDate
    /\ Returned # {}
    /\ \A k \in Returned : outs[k].analysis.is_replied

AttachmentNames ==
    UNION { {m.payload.parts.list[i].filename : i \in 1..Len(m.payload.parts.list)} :
            m \in {n \in Messages : n.payload.present /\ n.payload.parts.present} }
    \ {<<>>}

\* how many times name occurs in the sequence s
Occurrences(s, name) == Cardinality({i \in 1..Len(s) : s[i] = name})

\* the messages that carry an attachment named name
Carriers(name) ==
    {m \in Messages :
        /\ m.payload.present
        /\ \E i \in 1..Len(m.payload.parts.list) : m.payload.parts.list[i].filename = name}

\* C4 as stated: a thread whose only attachment is "NonResume.docx" has
\* has_resume = FALSE; one with "John_Resume.pdf" has has_resume = TRUE, and
\* the name is emitted exactly once even when two messages carry it.
C4_NonResumeNotOfInterest ==
    \A k \in Returned :
        /\ AttachmentNames = {NonResume} => ~outs[k].analysis.has_resume
        /\ JohnResume \in AttachmentNames =>
              /\ outs[k].analysis.has_resume
              /\ Occurrences(outs[k].analysis.resume_filenames, JohnResume) = 1

\* C4 amended: "NonResume.docx" is of interest too (its lower-case form
\* contains "resume"); a thread whose only attachment is "Notes.docx", or
\* that has none, has has_resume = FALSE; "John_Resume.pdf" gives TRUE and
\* is emitted exactly once even when two messages carry it.
C4_AttachmentOfInterest ==
    \A k \in Returned :
        /\ AttachmentNames = {NonResume} =>
              /\ outs[k].analysis.has_resume
              /\ outs[k].analysis.resume_filenames = <<NonResume>>
        /\ AttachmentNames \subseteq {Notes} =>
              /\ ~outs[k].analysis.has_resume
              /\ outs[k].analysis.resume_filenames = <<>>
        /\ JohnResume \in AttachmentNames =>
              /\ outs[k].analysis.has_resume
              /\ Occurrences(outs[k].analysis.resume_filenames, JohnResume) = 1

\* C4 witness: two messages of the thread carry "John_Resume.pdf" and the
\* thread has been classified.
C4_Witness ==
    /\ revision = "allmail"
    /\ Cardinality(Carriers(JohnResume)) = 2
    /\ Returned # {}
    /\ \A k \in Returned : outs[k].analysis.resume_filenames = <<JohnResume>>

SeniorEngineer == <<"S","e","n","i","o","r"," ","E","n","g","i","n","e","e","r">>

JavaDev == <<"J","a","v","a"," ","D","e","v">>

\* The display subject expected for each subject of the inputs when the
\* thread is not special-category: the text before the first delimiter of
\* the subject without its reply prefix, or the whole of it when that text
\* is empty or 50 characters long.
ExpectedDisplay(subjectRaw) ==
    CASE subjectRaw = SubjFwd -> SeniorEngineer
      [] subjectRaw = SubjRe -> JavaDev
      [] subjectRaw = SubjDash -> SubjDash
      [] subjectRaw = SubjLong -> SubjLong
      [] subjectRaw = SubjLong49 -> Repeat("x", 49)
      [] subjectRaw = NoSubject -> NoSubject
      [] OTHER -> subjectRaw

\* The Subject the record shows as original_subject: that of the primary
\* message's own headers, else of the headers the recovery fetch brought.
PrimarySubject ==
    LET own == ownHeaderList(primaryOfAllMail(threadData.messages))
    IN  IF own # <<>> THEN headerValue(Headers(own), "Subject", NoSubject)
        ELSE IF msgGet = "headers"
        THEN headerValue(RecoveredHeaders(primaryOfAllMail(threadData.messages).id),
                         "Subject", NoSubject)
        ELSE NoSubject

\* C8: a special-category thread displays "RTR"; any other displays the text
\* before the first '|', '-' or ':' of its subject without the reply prefix
\* (trimmed) when that text is non-empty and shorter than 50 characters, else
\* the whole cleaned subject; original_subject is the subject unchanged.
C8_SubjectDisplay ==
    \A k \in Returned :
        /\ outs[k].original_subject = PrimarySubject
        /\ outs[k].analysis.is_rtr => outs[k].subject = RtrLabel
        /\ ~outs[k].analysis.is_rtr =>
              outs[k].subject = ExpectedDisplay(outs[k].original_subject)

\* C8 witness: a thread that is not special-category, whose primary subject
\* is "Fwd: Senior Engineer | Remote", displays "Senior Engineer".
C8_Witness ==
    /\ revision = "allmail"
    /\ Returned # {}
    /\ \A k \in Returned :
          /\ outs[k].original_subject = SubjFwd
          /\ ~outs[k].analysis.is_rtr
          /\ outs[k].subject = SeniorEngineer

\* the thread is one inbound message whose subject contains
\* "Right To Represent"
SingleRightToRepresent ==
    /\ Len(threadData.messages) = 1
    /\ "SENT" \notin threadData.messages[1].labelIds
    /\ headerValue(payloadHeaders(threadData.messages[1]), "Subject", <<>>) = SubjRightTo

\* C9: the enrichment call is attempted for a thread exactly when the thread
\* is flagged is_rtr; a thread that is not flagged never carries ai_data; a
\* single inbound "Right To Represent" message is flagged and enriched.
C9_EnrichmentIffRtr ==
    /\ tpc = "enrich" =>
          /\ pending.analysis.is_rtr
          /\ aiCalls[Len(aiCalls)] = 1
    /\ \A k \in 1..Len(outs) : aiCalls[k] = 1 => outs[k].kind = "thread"
    /\ \A k \in Returned :
          /\ outs[k].analysis.is_rtr <=> aiCalls[k] = 1
          /\ ~outs[k].analysis.is_rtr => outs[k].ai_data = NoAi
          /\ SingleRightToRepresent =>
                outs[k].analysis.is_rtr /\ outs[k].subject = RtrLabel

\* C9 witness: a single inbound "Right To Represent" message was classified
\* and the enrichment call was made for it.
C9_Witness ==
    /\ revision = "allmail"
    /\ SingleRightToRepresent
    /\ Len(outs) = 1
    /\ outs[1].kind = "thread"
    /\ aiCalls[1] = 1
    /\ outs[1].ai_data = <<Extracted>>

\* C10 as stated: when the enrichment call of a special-category thread
\* fails, analyzeThread still returns the record, with the flags it had, and
\* the record has no ai_data.
C10_FailedEnrichmentLeavesNoAiData ==
    (tpc = "idle" /\ aiOutcome \in {"network", "parse", "quota", "throws"}) =>
        /\ outs[Len(outs)].kind = "thread"
        /\ outs[Len(outs)].analysis.is_rtr
        /\ outs[Len(outs)].ai_data = NoAi


(***************************************************************************)
(* Properties of getUserActivity                                           *)
(***************************************************************************)
Resolved == result.kind = "resolved"

Items == IF Resolved THEN result.items ELSE <<>>

\* C1: no thread id appears more than once in the items getUserActivity
\* returns, whatever stubs the page listed (several of one thread included)
\* and whichever thread fetches failed.
C1_NoThreadTwice ==
    \A a, b \in 1..Len(Items) : a # b => Items[a].id # Items[b].id

\* a page with two stubs of one thread was listed and the thread is returned
C1_Witness ==
    /\ Resolved
    /\ \E a, b \in 1..Len(allMessages) :
          /\ a < b
          /\ allMessages[a].threadId = allMessages[b].threadId
          /\ \E n \in 1..Len(Items) : Items[n].id = allMessages[a].threadId

\* C2: the items getUserActivity returns are sorted descending by sort_epoch:
\* of two adjacent items the earlier one's sort_epoch is greater than or
\* equal to the later one's.
C2_SortedDescending ==
    \A n \in 1..(Len(Items) - 1) : Items[n].sort_epoch >= Items[n + 1].sort_epoch

\* three items are returned, two of them with equal sort_epoch
C2_Witness ==
    /\ Len(Items) = 3
    /\ \E n \in 1..2 : Items[n].sort_epoch = Items[n + 1].sort_epoch
    /\ \E n \in 1..2 : Items[n].sort_epoch > Items[n + 1].sort_epoch

\* C3: in every result the reported total equals
\* max(exactTotal, items.length, providerEstimate), hence is at least
\* items.length.  The all-mail revision reports the provider's estimate alone.
C3_TotalIsMax ==
    Resolved =>
        /\ result.meta.total = Max(exactTotal, Max(Len(Items), totalEstimate))
        /\ result.meta.total >= Len(Items)

\* the day since 1970-01-01 that a date string YYYY-MM-DD names
DayNamed(str) ==
    daysFromCivil(toNumber(SubSeq(str, 1, 4)), toNumber(SubSeq(str, 6, 7)),
                  toNumber(SubSeq(str, 9, 10)))

\* C7: when startDate and/or endDate is supplied, every returned item's local
\* calendar date d (of its sort_epoch) has startDate <= d <= endDate.  The
\* all-mail revision returns every classified thread.
C7_ItemsInsideRange ==
    \A n \in 1..Len(Items) :
        /\ startDate # NoDate => DayNamed(startDate) <= Items[n].sort_epoch \div TicksPerDay
        /\ endDate # NoDate => Items[n].sort_epoch \div TicksPerDay <= DayNamed(endDate)


\* the threads of the listed page
PageThreads == {allMessages[n].threadId : n \in 1..Len(allMessages)}

\* the threads whose task ended in one of the ways hows
Ended(hows) == {o.id : o \in {x \in outcome : x.how \in hows}}

\* C11: when the page list succeeds and every thread-detail fetch of the page
\* fails, getUserActivity returns normally: no exception, items empty,
\* fetched = the number of stubs of the page, nextToken = the provider's
\* cursor and total = max(exactTotal, 0, providerEstimate).
C11_AllFetchesFail ==
    /\ "list" \notin failed => pc # "threw"
    /\ pc = "done" /\ Ended({"unfetched"}) = PageThreads =>
          /\ Resolved
          /\ Items = <<>>
          /\ result.meta.fetched = Len(allMessages)
          /\ result.meta.nextToken = nextToken
          /\ result.meta.total = Max(exactTotal, Max(0, totalEstimate))

\* a page of three threads with a cursor was listed and all three fetches
\* failed
C11_Witness ==
    /\ Resolved
    /\ Cardinality(PageThreads) = 3
    /\ Ended({"unfetched"}) = PageThreads
    /\ nextToken # NoToken
    /\ totalEstimate > 0

\* the ids of the returned items
ItemIds == {Items[n].id : n \in 1..Len(Items)}

\* the threads that were fetched and classified and whose date is inside the
\* range the caller gave
Passing ==
    {o.id : o \in {x \in outcome : /\ x.how = "thread"
                                   /\ isValid(x.sort_epoch, startDate, endDate)}}

\* C12: a failure of one thread's fetch or classification skips that thread
\* only: every thread of the page is processed, and the returned items are
\* exactly the threads whose fetch and classification both succeeded and
\* whose date passes the filter (in the all-mail revision, which has no
\* filter, at least those and only fetched and classified ones).
C12_OnlyFailedThreadSkipped ==
    pc = "done" =>
        /\ Resolved
        /\ Ended({"thread", "null", "unfetched", "thrown"}) = PageThreads
        /\ Passing \subseteq ItemIds
        /\ ItemIds \subseteq Ended({"thread"})
        /\ revision # "allmail" => ItemIds = Passing

\* a page of three threads in two batches: a fetch failed in each batch, a
\* thread of the first batch is returned
C12_Witness ==
    /\ Resolved
    /\ revision # "allmail"
    /\ Len(threadsToProcess) = 3
    /\ threadsToProcess[1][1].threadId \in Ended({"unfetched"})
    /\ threadsToProcess[2][1].threadId \in ItemIds
    /\ threadsToProcess[3][1].threadId \in Ended({"unfetched"})

\* in the all-mail revision a thread whose body read threw is skipped and
\* the other threads are returned
C12_WitnessThrown ==
    /\ Resolved
    /\ Ended({"thrown"}) # {}
    /\ ItemIds # {}

\* C13: when the page list call fails, the failure propagates to the caller
\* of getUserActivity: the call ends rejected, no thread fetch was started
\* and no partial result is returned.
C13_ListFailurePropagates ==
    "list" \in failed =>
        /\ pc = "threw"
        /\ result.kind = "rejected"
        /\ tasks = <<>>
        /\ outcome = {}
        /\ detailedEmails = <<>>

\* the page list failed after a count pass that had succeeded
C13_Witness ==
    /\ "list" \in failed
    /\ "count" \in issued
    /\ "count" \notin failed
    /\ exactTotal > 0
    /\ pc = "threw"

\* C14: the count pass of the inbox and sent revisions runs only when the
\* request has no pageToken.  With a cursor no count list call is issued,
\* exactTotal stays 0 whatever the mailbox holds, and the reported total is
\* max(items.length, providerEstimate).
C14_CountPassOnlyOnFirstPage ==
    revision # "allmail" =>
        /\ pageToken = NoToken => "count" \in issued
        /\ pageToken # NoToken =>
              /\ "count" \notin issued
              /\ exactTotal = 0
              /\ Resolved => result.meta.total = Max(Len(Items), totalEstimate)

\* a request with a cursor returned more items than the provider estimated
C14_Witness ==
    /\ revision # "allmail"
    /\ pageToken # NoToken
    /\ Resolved
    /\ Len(Items) = 2
    /\ totalEstimate = 0

\* C15: when a list call of the count pass fails, the request is not
\* aborted: exactTotal is 0 (the ids collected before the failure are
\* discarded), the page list and the threads go on, and the reported total
\* is max(items.length, providerEstimate).
C15_CountFailureIsSwallowed ==
    "count" \in failed =>
        /\ exactTotal = 0
        /\ "list" \in issued
        /\ "list" \notin failed => pc # "threw"
        /\ Resolved => result.meta.total = Max(Len(Items), totalEstimate)

\* the count pass failed and the request returned items all the same
C15_Witness ==
    /\ "count" \in failed
    /\ Resolved
    /\ Len(Items) = 2

\* C16: the query always contains -in:trash, -in:spam and -in:drafts; it
\* contains label:INBOX exactly in the inbox listing and label:SENT exactly
\* in the sent listing, and neither in the all-mail listing.  The inbox and
\* sent queries have no -in:drafts.
C16_QueryClauses ==
    pc = "built" =>
        /\ includes(query, InTrash)
        /\ includes(query, InSpam)
        /\ includes(query, InDrafts)
        /\ includes(query, LabelInbox) <=> revision = "inbox"
        /\ includes(query, LabelSent) <=> revision = "sent"

\* the ten characters that follow the first occurrence of key in q
DateAfter(q, key) ==
    LET at == {n \in 0..(Len(q) - Len(key)) : SubSeq(q, n + 1, n + Len(key)) = key}
        first == CHOOSE a \in at : \A b \in at : a <= b
    IN  SubSeq(q, first + Len(key) + 1, first + Len(key) + 10)

\* C17: the query's after: bound is the calendar day before startDate and
\* its before: bound the calendar day after endDate, across month and year
\* ends.  The all-mail revision gives after: the start date itself.
C17_BoundsMovedOutward ==
    pc = "built" =>
        /\ startDate # NoDate =>
              /\ includes(query, AfterKey)
              /\ DayNamed(DateAfter(query, AfterKey)) = DayNamed(startDate) - 1
        /\ endDate # NoDate =>
              /\ includes(query, BeforeKey)
              /\ DayNamed(DateAfter(query, BeforeKey)) = DayNamed(endDate) + 1

\* the tasks that have been started and have not settled
Outstanding == {k \in DOMAIN tasks : tasks[k].st # "settled"}

\* C18: during thread processing at most one batch of thread tasks (chunkSize,
\* 10 in the program) is outstanding at any moment, and while a batch runs
\* every thread of the batches before it has settled, by success or by
\* failure.  The earlier getUserActivity starts a task for every thread of
\* the page at once.
C18_OneBatchOutstanding ==
    /\ Cardinality(Outstanding) <= chunkSize
    /\ pc = "batch" =>
          \A n \in 1..batchStart :
              threadsToProcess[n][1].threadId \in
                  Ended({"thread", "null", "unfetched", "thrown"})

\* the messages of the thread that carry the highest internalDate
Latest == {l \in Messages : \A n \in Messages : l.internalDate >= n.internalDate}

\* C19: the sort epoch, the display timestamp and the snippet of every
\* returned record are those of the thread's latest message, the one with
\* the highest internalDate, whatever the order of the provider's listing.
\* The all-mail analyzeThread takes all three from its primary message, the
\* first message of the listing that is not SENT.
C19_LatestMessageSupplies ==
    \A k \in Returned : \E l \in Latest :
        /\ outs[k].sort_epoch = l.internalDate
        /\ outs[k].timestamp.iso = l.internalDate
        /\ outs[k].summary = l.snippet

\* C20: the count pass stops when the provider returns no cursor or when the
\* ceiling of 50 pages is reached, so it never issues more than 50 list
\* calls: while a list call of the count pass is outstanding, it is at most
\* the 50th (pageCount counts the calls that resolved before it).  The loop
\* tests pageCount > 50 after the increment and issues a 51st call.
C20_AtMostFiftyCountCalls ==
    pc = "count" => pageCount + 1 <= CountCeiling

\* C21: after a count pass that did not fail, exactTotal is the number of
\* distinct thread ids on the pages walked (an id on several pages or
\* several times on a page counts once); it is at most the number of
\* distinct threads the provider holds for the query, and a higher ceiling
\* never gives a lower exactTotal.
C21_ExactTotalCountsDistinct ==
    (pc = "list" /\ feed # <<>>) =>
        /\ pageCount \in 1..Len(feed)
        /\ exactTotal = Cardinality(idsOn(feed, pageCount))
        /\ exactTotal <= Cardinality(idsOn(feed, Len(feed)))
        /\ \A higher \in (ceiling + 1)..(MaxFeed + 1) :
              exactTotal <= countPass(feed, higher).size

\* the ceiling ended the walk before a page with a new thread; the pages
\* walked name one thread on two pages and twice on one page
C21_Witness ==
    /\ pc = "list"
    /\ feed = << <<1, 1>>, <<1, 2>>, <<3>> >>
    /\ ceiling = 1
    /\ pageCount = 2
    /\ exactTotal = 2

\* the messages the thread's first contact can be: those with the smallest
\* internalDate among the messages without SENT, or among all messages when
\* every one carries SENT
FirstContacts ==
    LET inbound == {m \in Messages : "SENT" \notin m.labelIds}
        among == IF inbound = {} THEN Messages ELSE inbound
    IN  {m \in among : \A n \in among : m.internalDate <= n.internalDate}

\* C22: the primary message of analyzeThread is the earliest message without
\* the SENT label, or the earliest message when all carry SENT, and the
\* record's counterparty name and subject are taken from it, whatever the
\* order of the listing: when the first contact came with its headers, the
\* record's name and subject are those headers'.  The inbox revision takes
\* the earliest message even when it is SENT.
C22_PrimaryIsFirstInbound ==
    \A k \in Returned :
        (\A p \in FirstContacts : payloadHeaders(p).present /\ payloadHeaders(p).list # <<>>)
        => \E p \in FirstContacts :
              /\ outs[k].from = parseName(headerValue(payloadHeaders(p), "From", Unknown))
              /\ outs[k].subject = headerValue(payloadHeaders(p), "Subject", NoSubject)

\* the headers of message m are missing, or present but empty
LacksHeaders(m) == ~payloadHeaders(m).present \/ payloadHeaders(m).list = <<>>

\* C23: analyzeThread issues exactly one single-message metadata fetch when
\* the headers of its representative message (the primary, messages[0] after
\* the sort) are missing or present but empty, a thread of one message
\* included, and none when they are present and not empty.  The inbox
\* revision fetches only when the headers are missing and the primary is not
\* the latest message.
C23_RecoveryWhenHeadersLacking ==
    \A k \in Returned :
        msgGets[k] = IF LacksHeaders(primaryOf(threadData.messages)) THEN 1 ELSE 0

\* the finished calls whose recovery fetch was rejected
RecoveryFailed == {k \in 1..Len(outs) : msgGet = "reject" /\ msgGets[k] = 1}

\* C24: when the header-recovery fetch of a thread fails, the failure is
\* caught and the thread is omitted from the items: analyzeThread neither
\* throws nor returns a record for it.  The catch block swallows the failure
\* and the record is built from the latest message's headers or from the
\* defaults.
C24_FailedRecoveryOmitsThread ==
    \A k \in RecoveryFailed : outs[k].kind \notin {"thrown", "thread"}

\* the value of the first Subject header of message m, lower-cased; empty
\* when the message has none
LowerSubject(m) ==
    LET hs == payloadHeaders(m).list
        at == {i \in 1..Len(hs) : hs[i].name = "Subject"}
    IN  IF at = {} THEN <<>>
        ELSE toLowerCase(hs[CHOOSE i \in at : \A j \in at : i <= j].value)

\* the messages on which one of the two signals fires
Signalling ==
    {m \in Messages :
        \/ includes(LowerSubject(m), RtrWord)
        \/ includes(LowerSubject(m), RtrPhrase)
        \/ \E l \in m.labelIds : l \in rtrLabelIds}

\* C25: is_rtr of a thread is true if and only if some message of the thread
\* has a Subject header that, lower-cased, contains "rtr" or "right to
\* represent", or has a label id in the label-of-interest set: every message
\* is looked at, not only the representative, and the flag is false when no
\* message fires either signal.
C25_RtrOnAnyMessage ==
    \A k \in Returned : outs[k].analysis.is_rtr <=> Signalling # {}

\* the thread is flagged although neither its first message nor its primary
\* message fires a signal
C25_Witness ==
    /\ Returned # {}
    /\ \A k \in Returned : outs[k].analysis.is_rtr
    /\ threadData.messages[1] \notin Signalling
    /\ primaryOfAllMail(threadData.messages) \notin Signalling

\* a thread without any signal is returned unflagged although labels of
\* interest exist
C25_WitnessUnflagged ==
    /\ Returned # {}
    /\ rtrLabelIds # {}
    /\ Len(threadData.messages) > 1
    /\ \A k \in Returned : ~outs[k].analysis.is_rtr

\* C26: when label resolution fails, because the label-list call rejects or
\* because processing the labels throws (a label without a name), the
\* label-of-interest set used for the classification is empty and
\* getUserActivity goes on with the page list.  The ids added before the
\* throw stay in the set.
C26_FailedLabelsGiveEmptySet ==
    "labels" \in failed =>
        /\ rtrLabelIds = {}
        /\ "list" \in issued
        /\ "list" \notin failed => pc # "threw"

\* C27: for every classified thread is_sent is true iff some message of the
\* thread carries SENT, and is_inbox is true iff some message carries INBOX,
\* whatever the scope of the query: a thread whose messages carry neither
\* label, or only SENT, has is_inbox false.  The inbox revision reports no
\* is_sent and takes is_inbox from the absence of SENT.
C27_FlagsFollowLabels ==
    \A k \in Returned :
        /\ "is_sent" \in DOMAIN outs[k].analysis
        /\ outs[k].analysis.is_sent <=> \E m \in Messages : "SENT" \in m.labelIds
        /\ outs[k].analysis.is_inbox <=> \E m \in Messages : "INBOX" \in m.labelIds

\* the place of thread id on the listed page
PagePlace(id) ==
    CHOOSE n \in 1..Len(threadsToProcess) : threadsToProcess[n][1].threadId = id

\* x is put behind every item of a thread listed before its own
InsertByPlace(sorted, x) ==
    LET keep == {n \in 1..Len(sorted) : PagePlace(sorted[n].id) <= PagePlace(x.id)}
        k == IF keep = {} THEN 0 ELSE CHOOSE n \in keep : \A m \in keep : m <= n
    IN  SubSeq(sorted, 1, k) \o <<x>> \o SubSeq(sorted, k + 1, Len(sorted))

RECURSIVE InPageOrder(_)
\* the records of s in the order in which the page lists their threads: the
\* order in which they are pushed when every fetch completes in turn
InPageOrder(s) ==
    IF s = <<>> THEN <<>>
    ELSE InsertByPlace(InPageOrder(SubSeq(s, 1, Len(s) - 1)), s[Len(s)])

\* C28: for fixed provider data the returned items, the relative order of
\* threads with equal sort_epoch included, are the same for every order in
\* which the fetches of a batch complete: they are the items of the run in
\* which the fetches complete in page order.  The sort is stable, so threads
\* with equal sort_epoch stay in the order in which their tasks finished.
C28_OrderIndependentOfCompletion ==
    Resolved => Items = sortBySortEpoch(InPageOrder(Items))

\* C29: whenever Policy B (more than one message, the first message not
\* SENT, the latest message SENT), which the inbox analyzeThread reports as
\* is_replied, marks a thread replied, so does Policy A (a SENT message and a
\* message without SENT), for any number of messages, labels and timestamps;
\* the converse does not hold.
C29_StrictImpliesConversation ==
    \A k \in Returned :
        outs[k].analysis.is_replied => repliedConversation(threadData.messages)

\* a thread of three messages is replied under both policies
C29_Witness ==
    /\ Returned # {}
    /\ Len(threadData.messages) = 3
    /\ \A k \in Returned : outs[k].analysis.is_replied
    /\ repliedConversation(threadData.messages)

\* the converse fails: inbound, sent, inbound by time is replied under
\* Policy A and not under Policy B
C29_ConverseFails ==
    /\ Returned # {}
    /\ Len(threadData.messages) = 3
    /\ "SENT" \notin threadData.messages[1].labelIds
    /\ "SENT" \in threadData.messages[2].labelIds
    /\ "SENT" \notin threadData.messages[3].labelIds
    /\ threadData.messages[1].internalDate < threadData.messages[3].internalDate
    /\ repliedConversation(threadData.messages)
    /\ \A k \in Returned : ~outs[k].analysis.is_replied

\* C30: provided every provider call settles, every call of getUserActivity
\* ends, by returning a result or by throwing: the count loop stops after a
\* bounded number of list calls even when every page carries a cursor, and
\* the batch loop passes once over the threads of the page.
C30_Terminates == <>(pc \in {"done", "threw"})

\* a first-page call returned after a count pass without failure and two
\* batches
C30_Witness ==
    /\ pc = "done"
    /\ pageToken = NoToken
    /\ "count" \in issued
    /\ "count" \notin failed
    /\ Len(threadsToProcess) > chunkSize
    /\ Ended({"thread", "null", "unfetched", "thrown"}) = PageThreads

=============================================================================
